---------------------------- MODULE Spec2Model ----------------------------
(***************************************************************************)
(* Residue-numbering reconciliation and region-merging routines of         *)
(* dataset/utility.py (disobind).                                          *)
(*                                                                         *)
(* Every routine is a synchronous pure function, so each one is an         *)
(* operator computed the way the Python code computes it, and each         *)
(* specification draws the arguments of one call in its initial state and  *)
(* applies the routine in a single action (the round trip of change_basis  *)
(* makes a second call with the result of the first).                      *)
(*                                                                         *)
(* Python values:                                                          *)
(*   list            a sequence                                            *)
(*   tuple (a, b)    the sequence <<a, b>>                                 *)
(*   str             the sequence of its characters: "12" is <<"1", "2">>  *)
(*   scalar argument a record [type, val], see the section on the token    *)
(*                   normaliser                                            *)
(*   return / raise  a record [exc, value]: exc = "" for a normal return   *)
(*                   of value, otherwise the name of the exception raised  *)
(***************************************************************************)
EXTENDS Integers, Sequences, FiniteSets, TLC

VARIABLES
    pc,     \* "ready" before the call, "done" after it
    fn,     \* name of the routine the behaviour calls
    args,   \* the arguments passed by the caller
    ret,    \* the outcome of the call, NoCall before it
    ret2    \* the outcome of a second call made with the first one's result,
            \* NoCall before it

vars == <<pc, fn, args, ret, ret2>>

NoCall == [exc |-> "not called", value |-> <<>>]
Return(v) == [exc |-> "", value |-> v]
Raise(e) == [exc |-> e, value |-> <<>>]

Abs(n) == IF n < 0 THEN -n ELSE n
Min(a, b) == IF a <= b THEN a ELSE b
Max(a, b) == IF a >= b THEN a ELSE b

\* All sequences over S of length 0..n.
SeqUpTo(S, n) == UNION {[1..k -> S] : k \in 0..n}

\* All orderings of the elements of the list L (as lists).
Orderings(L) ==
    {[k \in 1..Len(L) |-> L[p[k]]] : p \in Permutations(1..Len(L))}

(***************************************************************************)
(* Interval Merger: merge_overlapping_tuples                               *)
(***************************************************************************)

\* Python's ordering of 2-tuples of integers.
tuple_lt(a, b) == a[1] < b[1] \/ (a[1] = b[1] /\ a[2] < b[2])

\* Insert t into the sorted list L, after the elements not greater than it.
RECURSIVE sorted_insert(_, _)
sorted_insert(L, t) ==
    IF L = <<>> THEN <<t>>
    ELSE IF tuple_lt(t, L[1]) THEN <<t>> \o L
    ELSE <<L[1]>> \o sorted_insert(Tail(L), t)

RECURSIVE sorted_tuples_from(_, _)
sorted_tuples_from(L, acc) ==
    IF L = <<>> THEN acc
    ELSE sorted_tuples_from(Tail(L), sorted_insert(acc, L[1]))

\* Mutant: the sort is left out.
sorted_tuples_unsorted(L) == L

\* sorted( disorder_regions ): a new list, ascending (stable).
sorted_tuples(L) == sorted_tuples_from(L, <<>>)

\* Index of the first element of L equal to y, 0 if there is none.
RECURSIVE list_index_from(_, _, _)
list_index_from(L, y, k) ==
    IF k > Len(L) THEN 0
    ELSE IF L[k] = y THEN k
    ELSE list_index_from(L, y, k + 1)

list_index(L, y) == list_index_from(L, y, 1)

\* list.remove( y ): the list without the first element equal to y.
\* (Python raises ValueError when there is none; see merge_inner.)
list_remove(L, y) ==
    LET k == list_index(L, y)
    IN  SubSeq(L, 1, k - 1) \o SubSeq(L, k + 1, Len(L))

\* Mutant: the adjacency branch is missing, so that an abutting pair falls
\* through to the "non-overlapping" branch.
merge_pair_no_adjacency(x, x1, x2, y) ==
    LET y1 == y[1]
        y2 == y[2]
    IN  IF x1 > y2 \/ x2 < y1 THEN [x1 |-> x1, x2 |-> x2, remove |-> FALSE]
        ELSE IF x1 <= y1 /\ x2 <= y2 THEN [x1 |-> x1, x2 |-> y2, remove |-> TRUE]
        ELSE IF x1 <= y1 /\ x2 >= y2 THEN [x1 |-> x1, x2 |-> x2, remove |-> TRUE]
        ELSE IF x1 >= y1 /\ x2 >= y2 THEN [x1 |-> y1, x2 |-> x2, remove |-> TRUE]
        ELSE IF x1 >= y1 /\ x2 <= y2 THEN [x1 |-> y1, x2 |-> y2, remove |-> TRUE]
        ELSE [x1 |-> x1, x2 |-> x2, remove |-> FALSE]

\* Mutant: a pair with one free position between its intervals counts as
\* adjacent.
merge_pair_wide(x, x1, x2, y) ==
    LET y1 == y[1]
        y2 == y[2]
    IN  IF Abs(y2 - x1) \in {1, 2} \/ Abs(x2 - y1) \in {1, 2}
        THEN [x1 |-> Min(x[1], y[1]), x2 |-> Max(x[2], y[2]), remove |-> TRUE]
        ELSE IF x1 > y2 \/ x2 < y1 THEN [x1 |-> x1, x2 |-> x2, remove |-> FALSE]
        ELSE IF x1 <= y1 /\ x2 <= y2 THEN [x1 |-> x1, x2 |-> y2, remove |-> TRUE]
        ELSE IF x1 <= y1 /\ x2 >= y2 THEN [x1 |-> x1, x2 |-> x2, remove |-> TRUE]
        ELSE IF x1 >= y1 /\ x2 >= y2 THEN [x1 |-> y1, x2 |-> x2, remove |-> TRUE]
        ELSE IF x1 >= y1 /\ x2 <= y2 THEN [x1 |-> y1, x2 |-> y2, remove |-> TRUE]
        ELSE [x1 |-> x1, x2 |-> x2, remove |-> FALSE]

\* One pass of the body of the inner loop: x is the tuple the outer loop is
\* at, (x1, x2) the running interval, y the tuple the inner loop is at.
\* Gives the new running interval and whether y is removed from the list.
merge_pair(x, x1, x2, y) ==
    LET y1 == y[1]
        y2 == y[2]
    IN  IF Abs(y2 - x1) = 1 \/ Abs(x2 - y1) = 1
        THEN [x1 |-> Min(x[1], y[1]), x2 |-> Max(x[2], y[2]), remove |-> TRUE]
        ELSE IF x1 > y2 \/ x2 < y1 THEN [x1 |-> x1, x2 |-> x2, remove |-> FALSE]
        ELSE IF x1 <= y1 /\ x2 <= y2 THEN [x1 |-> x1, x2 |-> y2, remove |-> TRUE]
        ELSE IF x1 <= y1 /\ x2 >= y2 THEN [x1 |-> x1, x2 |-> x2, remove |-> TRUE]
        ELSE IF x1 >= y1 /\ x2 >= y2 THEN [x1 |-> y1, x2 |-> x2, remove |-> TRUE]
        ELSE IF x1 >= y1 /\ x2 <= y2 THEN [x1 |-> y1, x2 |-> y2, remove |-> TRUE]
        ELSE [x1 |-> x1, x2 |-> x2, remove |-> FALSE]

\* for y in disorder_regions[i+1:]: slice is the copy the loop runs over,
\* regions the list itself, which the loop removes elements from.
RECURSIVE merge_inner(_, _, _, _, _, _)
merge_inner(x, x1, x2, slice, j, regions) ==
    IF j > Len(slice)
    THEN [exc |-> "", x1 |-> x1, x2 |-> x2, regions |-> regions]
    ELSE LET m == merge_pair(x, x1, x2, slice[j])
         IN  IF ~m.remove
             THEN merge_inner(x, m.x1, m.x2, slice, j + 1, regions)
             ELSE IF list_index(regions, slice[j]) = 0
             THEN [exc |-> "ValueError", x1 |-> m.x1, x2 |-> m.x2,
                   regions |-> regions]
             ELSE merge_inner(x, m.x1, m.x2, slice, j + 1,
                              list_remove(regions, slice[j]))

\* for i, x in enumerate( disorder_regions ): the iterator reads the list
\* as it is when it reaches index i (1-based here).
RECURSIVE merge_outer(_, _, _)
merge_outer(regions, i, merged_regions) ==
    IF i > Len(regions) THEN Return(merged_regions)
    ELSE LET x == regions[i]
             r == merge_inner(x, x[1], x[2],
                              SubSeq(regions, i + 1, Len(regions)), 1, regions)
         IN  IF r.exc # "" THEN Raise(r.exc)
             ELSE merge_outer(r.regions, i + 1,
                              Append(merged_regions, <<r.x1, r.x2>>))

merge_overlapping_tuples(disorder_regions) ==
    merge_outer(sorted_tuples(disorder_regions), 1, <<>>)

\* Bounds of the interval lists the merger is called with.
MaxPos == 5
MaxTuples == 3

Intervals == {<<a, b>> : a \in 1..MaxPos, b \in 1..MaxPos} \
             {<<a, b>> \in (1..MaxPos) \X (1..MaxPos) : a > b}

IntervalLists == SeqUpTo(Intervals, MaxTuples)

\* The integer points covered by a list of closed intervals.
Cover(L) == UNION {L[k][1]..L[k][2] : k \in 1..Len(L)}

InitMerge ==
    /\ pc = "ready"
    /\ fn = "merge_overlapping_tuples"
    /\ args \in {[disorder_regions |-> L] : L \in IntervalLists}
    /\ ret = NoCall
    /\ ret2 = NoCall

CallMerge ==
    /\ pc = "ready"
    /\ fn = "merge_overlapping_tuples"
    /\ ret' = merge_overlapping_tuples(args.disorder_regions)
    /\ pc' = "done"
    /\ UNCHANGED <<fn, args, ret2>>

SpecMerge == InitMerge /\ [][CallMerge]_vars

MergeDone == pc = "done" /\ fn = "merge_overlapping_tuples"

\* C1: the integer points covered by the returned intervals are exactly the
\* integer points covered by the input intervals.
MergePreservesCoverage ==
    MergeDone =>
        /\ ret.exc = ""
        /\ Cover(ret.value) = Cover(args.disorder_regions)

\* C2: the returned list is ascending by start and consecutive returned
\* intervals (a,b),(c,d) satisfy c > b + 1, so no two returned intervals
\* overlap or abut.
MergeOutputSeparated ==
    MergeDone =>
        /\ ret.exc = ""
        /\ \A k \in 1..(Len(ret.value) - 1) :
              /\ ret.value[k][1] < ret.value[k + 1][1]
              /\ ret.value[k + 1][1] > ret.value[k][2] + 1

\* C2 witness: three intervals, the first and the last of which only merge
\* through the middle one, have been merged into a single interval.
MergeTransitiveWitness ==
    /\ MergeDone
    /\ Len(args.disorder_regions) = 3
    /\ LET L == sorted_tuples(args.disorder_regions)
       IN  /\ L[3][1] > L[1][2] + 1
           /\ L[2][1] <= L[1][2] + 1
           /\ L[3][1] <= L[2][2] + 1
    /\ Len(ret.value) = 1

\* C3: every reordering of the input list gives the same result.
MergeOrderIndependent ==
    MergeDone =>
        \A P \in Orderings(args.disorder_regions) :
            merge_overlapping_tuples(P) = ret

\* C3 witness: an input that is not in ascending order, whose intervals
\* were merged.
MergeUnsortedWitness ==
    /\ MergeDone
    /\ args.disorder_regions # sorted_tuples(args.disorder_regions)
    /\ ret.exc = ""
    /\ Len(ret.value) < Len(args.disorder_regions)
    /\ Len(ret.value) > 1

(***************************************************************************)
(* Token Normalizer: convert_to_str                                        *)
(*                                                                         *)
(* A scalar of a position list is a record [type, val]:                    *)
(*   [type |-> "int",   val |-> n]   the int n                             *)
(*   [type |-> "float", val |-> t]   the finite float t / 10               *)
(*   [type |-> "nan",   val |-> 0]   float NaN                             *)
(*   [type |-> "inf",   val |-> 0]   float +infinity                       *)
(*   [type |-> "str",   val |-> s]   the str with the characters s         *)
(* Strings are over the characters of StrChars; of the characters float()  *)
(* gives a meaning to, these hold the digits, the sign and the point (no   *)
(* exponent, underscore or blank).                                         *)
(***************************************************************************)

PyInt(n) == [type |-> "int", val |-> n]
PyFloat(t) == [type |-> "float", val |-> t]
PyStr(s) == [type |-> "str", val |-> s]
NaN == [type |-> "nan", val |-> 0]
Inf == [type |-> "inf", val |-> 0]

null == <<"n", "u", "l", "l">>

nums == <<"0", "1", "2", "3", "4", "5", "6", "7", "8", "9">>

IsDigit(ch) == \E d \in 1..Len(nums) : nums[d] = ch
DigitValue(ch) == (CHOOSE d \in 1..Len(nums) : nums[d] = ch) - 1

\* pd.isna( v ) for a scalar.
isna(v) == v.type = "nan"

\* str( n ) for an int n.
RECURSIVE str_nat(_)
str_nat(n) ==
    IF n < 10 THEN <<nums[n + 1]>>
    ELSE str_nat(n \div 10) \o <<nums[(n % 10) + 1]>>

str_int(n) == IF n < 0 THEN <<"-">> \o str_nat(-n) ELSE str_nat(n)

\* The number written by a string of digits ("" is 0).
RECURSIVE digits_value(_, _)
digits_value(s, acc) ==
    IF s = <<>> THEN acc
    ELSE digits_value(Tail(s), 10 * acc + DigitValue(Head(s)))

\* float( s ) for a str s, then int( ): [ok, val]. s is a float literal when
\* it is an optional sign followed by digits with at most one point among
\* them, and at least one digit; int( ) drops the fraction (towards zero).
int_float_str(s) ==
    LET signed == s # <<>> /\ Head(s) \in {"-", "+"}
        body == IF signed THEN Tail(s) ELSE s
        dots == {k \in 1..Len(body) : body[k] = "."}
        ok == /\ Cardinality(dots) <= 1
              /\ \A k \in (1..Len(body)) \ dots : IsDigit(body[k])
              /\ Len(body) - Cardinality(dots) >= 1
        whole == IF dots = {} THEN body
                 ELSE SubSeq(body, 1, (CHOOSE k \in dots : TRUE) - 1)
        mag == digits_value(whole, 0)
    IN  IF ~ok THEN [ok |-> FALSE, val |-> 0]
        ELSE [ok |-> TRUE,
              val |-> IF signed /\ Head(s) = "-" THEN -mag ELSE mag]

\* int( t / 10 ) for a finite float: the fraction is dropped towards zero.
int_float(t) == IF t < 0 THEN -((-t) \div 10) ELSE t \div 10

\* The except branch: the digits of the string, in order.
RECURSIVE keep_digits(_)
keep_digits(s) ==
    IF s = <<>> THEN <<>>
    ELSE (IF IsDigit(Head(s)) THEN <<Head(s)>> ELSE <<>>)
         \o keep_digits(Tail(s))

\* The token appended for one element of plist.
convert_element(v, add) ==
    IF isna(v) THEN Return(add)
    ELSE IF v.type = "str" /\ v.val = null THEN Return(add)
    ELSE IF v.type = "int" THEN Return(str_int(v.val))
    ELSE IF v.type = "float" THEN Return(str_int(int_float(v.val)))
    ELSE IF v.type = "inf" THEN Raise("TypeError")
    ELSE LET f == int_float_str(v.val)
         IN  IF f.ok THEN Return(str_int(f.val))
             ELSE Return(keep_digits(v.val))

RECURSIVE convert_from(_, _, _, _)
convert_from(plist, add, i, new_list) ==
    IF i > Len(plist) THEN Return(new_list)
    ELSE LET e == convert_element(plist[i], add)
         IN  IF e.exc # "" THEN Raise(e.exc)
             ELSE convert_from(plist, add, i + 1, Append(new_list, e.value))

convert_to_str(plist, add) == convert_from(plist, add, 1, <<>>)

\* A list of str, passed again as a position list.
as_plist(tokens) == [k \in 1..Len(tokens) |-> PyStr(tokens[k])]

(***************************************************************************)
(* Basis Converter: change_basis                                           *)
(***************************************************************************)

\* Mutant: the lookup takes the last index holding the value.
RECURSIVE list_rindex_from(_, _, _)
list_rindex_from(L, y, k) ==
    IF k < 1 THEN 0
    ELSE IF L[k] = y THEN k
    ELSE list_rindex_from(L, y, k - 1)

basis_lookup_last(source, dest, tok) ==
    LET idx == list_rindex_from(source, tok, Len(source))
    IN  IF idx = 0 THEN Raise("ValueError")
        ELSE IF idx > Len(dest) THEN Raise("IndexError")
        ELSE Return(dest[idx])

\* idx = source.index( tok ); dest[idx]
basis_lookup(source, dest, tok) ==
    LET idx == list_index(source, tok)
    IN  IF idx = 0 THEN Raise("ValueError")
        ELSE IF idx > Len(dest) THEN Raise("IndexError")
        ELSE Return(dest[idx])

\* Mutant: a gap of the target is looked up like a position.
basis_element_no_gap(uni, pdb, tok, forward) ==
    IF ~forward THEN basis_lookup(uni, pdb, tok)
    ELSE basis_lookup(pdb, uni, tok)

\* Mutant: a position that is not in the mapping is passed on unchanged.
basis_element_default(uni, pdb, tok, forward) ==
    IF tok = null THEN Return(null)
    ELSE IF ~forward
    THEN (IF list_index(uni, tok) = 0 THEN Return(tok)
          ELSE basis_lookup(uni, pdb, tok))
    ELSE (IF list_index(pdb, tok) = 0 THEN Return(tok)
          ELSE basis_lookup(pdb, uni, tok))

\* Mutant: the reverse branch reads the token from the UniProt stream.
basis_element_same_stream(uni, pdb, tok, forward) ==
    IF tok = null THEN Return(null)
    ELSE IF ~forward THEN basis_lookup(uni, uni, tok)
    ELSE basis_lookup(pdb, uni, tok)

\* The body of the loop over target_pos, for the token tok.
basis_element(uni, pdb, tok, forward) ==
    IF tok = null THEN Return(null)
    ELSE IF ~forward THEN basis_lookup(uni, pdb, tok)
    ELSE basis_lookup(pdb, uni, tok)

RECURSIVE basis_loop(_, _, _, _, _, _)
basis_loop(uni, pdb, target, forward, i, modified_target) ==
    IF i > Len(target) THEN Return(modified_target)
    ELSE LET e == basis_element(uni, pdb, target[i], forward)
         IN  IF e.exc # "" THEN Raise(e.exc)
             ELSE basis_loop(uni, pdb, target, forward, i + 1,
                             Append(modified_target, e.value))

change_basis(mapped_uni_pos, mapped_pdb_pos, target_pos, add, forward) ==
    LET uni == convert_to_str(mapped_uni_pos, null)
        pdb == convert_to_str(mapped_pdb_pos, null)
        target == convert_to_str(target_pos, add)
    IN  IF uni.exc # "" THEN Raise(uni.exc)
        ELSE IF pdb.exc # "" THEN Raise(pdb.exc)
        ELSE IF target.exc # "" THEN Raise(target.exc)
        ELSE basis_loop(uni.value, pdb.value, target.value, forward, 1, <<>>)

\* Bounds of the mapping streams and of the target list.
MaxMap == 2
MaxTarget == 2

\* Scalars of the mapping streams and of the target list.  "35A" and 11.5
\* normalise to the tokens of 35 and 11, so a stream can hold a token twice.
UniVals == {PyInt(35), PyStr(<<"3", "5", "A">>), NaN}
PdbVals == {PyInt(11), PyFloat(115), PyStr(null)}
TargetVals == {PyInt(11), PyStr(<<"3", "5">>), NaN, PyStr(null)}
AddVals == {null, <<"-">>}

\* A Coordinate Mapping: two streams of the same length.
Mappings(U, P) ==
    UNION {[1..n -> U] \X [1..n -> P] : n \in 0..MaxMap}

InitBasis ==
    /\ pc = "ready"
    /\ fn = "change_basis"
    /\ args \in {[mapped_uni_pos |-> m[1], mapped_pdb_pos |-> m[2],
                  target_pos |-> t, add |-> a, forward |-> f] :
                    m \in Mappings(UniVals, PdbVals),
                    t \in SeqUpTo(TargetVals, MaxTarget),
                    a \in AddVals, f \in BOOLEAN}
    /\ ret = NoCall
    /\ ret2 = NoCall

CallChangeBasis ==
    /\ pc = "ready"
    /\ fn = "change_basis"
    /\ ret' = change_basis(args.mapped_uni_pos, args.mapped_pdb_pos,
                           args.target_pos, args.add, args.forward)
    /\ pc' = "done"
    /\ UNCHANGED <<fn, args, ret2>>

SpecBasis == InitBasis /\ [][CallChangeBasis]_vars

BasisDone == pc = "done" /\ fn = "change_basis"

\* A missing token of a position list: NaN or the string "null".
IsMissing(v) == v.type = "nan" \/ (v.type = "str" /\ v.val = null)

\* The normalised token of a scalar that is not missing.
Token(v) == convert_element(v, null).value

\* The normalised stream the lookup searches and the one it reads from.
SourceStream ==
    convert_to_str(IF args.forward THEN args.mapped_pdb_pos
                   ELSE args.mapped_uni_pos, null).value
DestStream ==
    convert_to_str(IF args.forward THEN args.mapped_uni_pos
                   ELSE args.mapped_pdb_pos, null).value

Occurs(tok, stream) == \E k \in 1..Len(stream) : stream[k] = tok

FirstIndex(tok, stream) ==
    CHOOSE k \in 1..Len(stream) :
        stream[k] = tok /\ \A j \in 1..(k - 1) : stream[j] # tok

\* C4: a call that returns gives a list as long as target_pos whose i-th
\* element, for a target element that is not missing, is the token of the
\* destination stream at the first index where the target's token occurs
\* in the source stream (source PDB and destination UniProt when forward,
\* the reverse otherwise).
BasisTranslatesByLookup ==
    (BasisDone /\ ret.exc = "") =>
        /\ Len(ret.value) = Len(args.target_pos)
        /\ \A i \in 1..Len(args.target_pos) :
              ~IsMissing(args.target_pos[i]) =>
                  /\ Occurs(Token(args.target_pos[i]), SourceStream)
                  /\ ret.value[i] =
                        DestStream[FirstIndex(Token(args.target_pos[i]),
                                              SourceStream)]

\* C4 witness: the PDB stream itself was converted forward; it holds the
\* same token twice, paired with different UniProt tokens, and the second
\* occurrence was given the UniProt token of the first.
BasisForwardWitness ==
    /\ BasisDone
    /\ ret.exc = ""
    /\ args.forward
    /\ args.target_pos = args.mapped_pdb_pos
    /\ \E i, j \in 1..Len(SourceStream) :
          /\ i < j
          /\ SourceStream[i] = SourceStream[j]
          /\ SourceStream[i] # null
          /\ DestStream[i] # DestStream[j]
          /\ ret.value[j] = DestStream[i]

\* C5: with the default marker, a call whose non-missing target elements
\* all occur in the source stream returns (a gap is never looked up), and
\* every position of target_pos that holds a missing token holds "null" in
\* the output, whatever the direction.
BasisPropagatesGaps ==
    (BasisDone /\ args.add = null) =>
        /\ (\A i \in 1..Len(args.target_pos) :
               ~IsMissing(args.target_pos[i]) =>
                   Occurs(Token(args.target_pos[i]), SourceStream))
           => ret.exc = ""
        /\ ret.exc = "" =>
              \A i \in 1..Len(args.target_pos) :
                  IsMissing(args.target_pos[i]) => ret.value[i] = null

\* C5 witness: a reverse call with a gap in the target returned, although
\* the source stream has a gap of its own that a lookup would have found.
BasisGapWitness ==
    /\ BasisDone
    /\ args.add = null
    /\ ~args.forward
    /\ ret.exc = ""
    /\ Occurs(null, SourceStream)
    /\ DestStream[FirstIndex(null, SourceStream)] # null
    /\ \E i, j \in 1..Len(args.target_pos) :
          /\ args.target_pos[i] = NaN
          /\ args.target_pos[j] = PyStr(null)

\* C6: a call with a non-missing target element whose token does not occur
\* in the source stream raises and returns nothing.
BasisFailsOnUnmapped ==
    (BasisDone /\ \E i \in 1..Len(args.target_pos) :
                      /\ ~IsMissing(args.target_pos[i])
                      /\ ~Occurs(Token(args.target_pos[i]), SourceStream)) =>
        /\ ret.exc = "ValueError"
        /\ ret.value = <<>>

\* C6 witness: the unmapped position follows a mapped one, so that part of
\* the output had been built when the lookup failed.
BasisUnmappedWitness ==
    /\ BasisDone
    /\ Len(args.target_pos) = 2
    /\ ~IsMissing(args.target_pos[1])
    /\ Occurs(Token(args.target_pos[1]), SourceStream)
    /\ ~IsMissing(args.target_pos[2])
    /\ ~Occurs(Token(args.target_pos[2]), SourceStream)
    /\ ret.exc = "ValueError"

(***************************************************************************)
(* Round trip: change_basis forward, then change_basis in reverse on the   *)
(* list the forward call returned.                                         *)
(***************************************************************************)

\* Scalars of a mapping without missing values.  "35A" normalises to the
\* token of 35, "11A" to the token of 11, and "01A" to "01", which is not
\* the decimal string of an integer.
UniValsRT == {PyInt(35), PyInt(36), PyStr(<<"3", "5", "A">>),
              PyStr(<<"0", "1", "A">>)}
PdbValsRT == {PyInt(11), PyInt(12), PyStr(<<"1", "1", "A">>)}

Elements(L) == {L[k] : k \in 1..Len(L)}

InitRoundTrip ==
    /\ pc = "ready"
    /\ fn = "change_basis round trip"
    /\ args \in {[mapped_uni_pos |-> m[1], mapped_pdb_pos |-> m[2],
                  target_pos |-> t, add |-> null, forward |-> TRUE] :
                    m \in Mappings(UniValsRT, PdbValsRT),
                    t \in SeqUpTo(PdbValsRT, MaxTarget)}
    /\ Elements(args.target_pos) \subseteq Elements(args.mapped_pdb_pos)
    /\ ret = NoCall
    /\ ret2 = NoCall

\* new_basis = change_basis( uni, pdb, X, forward = True )
CallForward ==
    /\ pc = "ready"
    /\ fn = "change_basis round trip"
    /\ ret' = change_basis(args.mapped_uni_pos, args.mapped_pdb_pos,
                           args.target_pos, args.add, TRUE)
    /\ pc' = "done"
    /\ UNCHANGED <<fn, args, ret2>>

\* old_basis = change_basis( uni, pdb, new_basis, forward = False )
CallReverse ==
    /\ pc = "done"
    /\ fn = "change_basis round trip"
    /\ ret.exc = ""
    /\ ret2' = change_basis(args.mapped_uni_pos, args.mapped_pdb_pos,
                            as_plist(ret.value), args.add, FALSE)
    /\ pc' = "back"
    /\ UNCHANGED <<fn, args, ret>>

NextRoundTrip == CallForward \/ CallReverse

SpecRoundTrip == InitRoundTrip /\ [][NextRoundTrip]_vars

RoundTripDone == pc = "back" /\ fn = "change_basis round trip"

UniTokens == convert_to_str(args.mapped_uni_pos, null).value

\* No token occurs twice in the stream.
DistinctTokens(stream) ==
    \A i, j \in 1..Len(stream) : stream[i] = stream[j] => i = j

\* Normalising the token again gives the token itself.
StableToken(tok) == convert_element(PyStr(tok), null) = Return(tok)

\* C7 as stated: for a mapping without missing values and a list X of
\* positions that occur in the PDB stream, converting X forward and the
\* result back returns the normalised tokens of X.
RoundTripIdentity ==
    RoundTripDone => ret2 = convert_to_str(args.target_pos, null)

\* C7 amended: the round trip returns the normalised tokens of X when,
\* moreover, no UniProt token occurs twice in the mapping and every UniProt
\* token is unchanged by normalising it again.
RoundTripIdentityInjective ==
    (/\ RoundTripDone
     /\ DistinctTokens(UniTokens)
     /\ \A k \in 1..Len(UniTokens) : StableToken(UniTokens[k])) =>
        ret2 = convert_to_str(args.target_pos, null)

\* C7 witness: two different positions went forward to two different
\* UniProt tokens and came back as themselves.
RoundTripWitness ==
    /\ RoundTripDone
    /\ DistinctTokens(UniTokens)
    /\ \A k \in 1..Len(UniTokens) : StableToken(UniTokens[k])
    /\ Len(args.target_pos) = 2
    /\ ret.exc = ""
    /\ ret.value[1] # ret.value[2]
    /\ ret2.exc = ""
    /\ ret2.value[1] # ret2.value[2]
    /\ ret2 = convert_to_str(args.target_pos, null)

(***************************************************************************)
(* Basis Converter, index-driven: change_basis2                            *)
(***************************************************************************)

\* L[idx] in Python: idx counts from 0, a negative idx from the end.
py_getitem(L, idx) ==
    IF 0 <= idx /\ idx < Len(L) THEN Return(L[idx + 1])
    ELSE IF -Len(L) <= idx /\ idx < 0 THEN Return(L[Len(L) + idx + 1])
    ELSE Raise("IndexError")

\* "null" in target_pos
contains_null(tokens) == \E k \in 1..Len(tokens) : tokens[k] = null

\* Mutant: the loop reads the mapping at its own counter i.
basis2_element_by_counter(mapping, i, idx) == py_getitem(mapping, i)

\* The body of the loop for i, idx in enumerate( indices ).
basis2_element(mapping, i, idx) == py_getitem(mapping, idx)

RECURSIVE basis2_loop(_, _, _, _)
basis2_loop(mapping, indices, k, modified_target) ==
    IF k > Len(indices) THEN Return(modified_target)
    ELSE LET e == basis2_element(mapping, k - 1, indices[k])
         IN  IF e.exc # "" THEN Raise(e.exc)
             ELSE basis2_loop(mapping, indices, k + 1,
                              Append(modified_target, e.value))

change_basis2(mapping, target_pos, indices, add) ==
    LET m == convert_to_str(mapping, null)
        target == convert_to_str(target_pos, add)
    IN  IF m.exc # "" THEN Raise(m.exc)
        ELSE IF target.exc # "" THEN Raise(target.exc)
        ELSE IF contains_null(target.value) THEN Raise("Exception")
        ELSE basis2_loop(m.value, indices, 1, <<>>)

\* Bound of the index list.
MaxIndices == 2

MappingVals2 == {PyInt(35), PyFloat(365), PyStr(<<"3", "7">>)}
TargetVals2 == {PyInt(11), NaN, PyStr(null)}

\* Indices into the mapping: -1 is its last element, MaxMap is past the end
\* of every mapping.
IndexVals == -1..MaxMap

InitBasis2 ==
    /\ pc = "ready"
    /\ fn = "change_basis2"
    /\ args \in {[mapping |-> m, target_pos |-> t, indices |-> ix,
                  add |-> a] :
                    m \in SeqUpTo(MappingVals2, MaxMap),
                    t \in SeqUpTo(TargetVals2, MaxTarget),
                    ix \in SeqUpTo(IndexVals, MaxIndices),
                    a \in AddVals}
    /\ ret = NoCall
    /\ ret2 = NoCall

CallChangeBasis2 ==
    /\ pc = "ready"
    /\ fn = "change_basis2"
    /\ ret' = change_basis2(args.mapping, args.target_pos, args.indices,
                            args.add)
    /\ pc' = "done"
    /\ UNCHANGED <<fn, args, ret2>>

SpecBasis2 == InitBasis2 /\ [][CallChangeBasis2]_vars

Basis2Done == pc = "done" /\ fn = "change_basis2"

HasMissing(plist) == \E k \in 1..Len(plist) : IsMissing(plist[k])

\* C8: a call whose target_pos holds a missing token ("null" or NaN) raises
\* the "Invalid position in target_pos" exception and returns nothing.
Basis2RejectsMissing ==
    (Basis2Done /\ HasMissing(args.target_pos)) =>
        /\ ret.exc = "Exception"
        /\ ret.value = <<>>

MappingTokens == convert_to_str(args.mapping, null).value

ValidIndex(idx) == -Len(args.mapping) <= idx /\ idx < Len(args.mapping)

\* C9: when target_pos holds no missing token, a call whose indices all lie
\* within the mapping returns, and a call that returns gives one element
\* per entry of indices, the k-th being the normalised token
\* mapping[indices[k]]; the values of target_pos play no part (the result is
\* that of the call with an empty target_pos).
Basis2ConvertsByIndex ==
    (Basis2Done /\ ~HasMissing(args.target_pos)) =>
        /\ (\A k \in 1..Len(args.indices) : ValidIndex(args.indices[k]))
           => ret.exc = ""
        /\ ret.exc = "" =>
              /\ Len(ret.value) = Len(args.indices)
              /\ \A k \in 1..Len(args.indices) :
                    /\ ValidIndex(args.indices[k])
                    /\ ret.value[k] =
                          MappingTokens[
                              IF args.indices[k] >= 0
                              THEN args.indices[k] + 1
                              ELSE Len(args.mapping) + args.indices[k] + 1]
        /\ ret = change_basis2(args.mapping, <<>>, args.indices, args.add)

\* C9 witness: a call with a target without missing tokens returned the
\* tokens at two indices given in descending order.
Basis2IndexWitness ==
    /\ Basis2Done
    /\ args.target_pos # <<>>
    /\ ~HasMissing(args.target_pos)
    /\ Len(args.indices) = 2
    /\ args.indices[1] = 1
    /\ args.indices[2] = 0
    /\ ret.exc = ""
    /\ ret.value[1] # ret.value[2]

(***************************************************************************)
(* Interval Extractor: ranges                                              *)
(***************************************************************************)

\* int( s ) for a str: an optional sign followed by digits.
int_str(s) ==
    LET signed == s # <<>> /\ Head(s) \in {"-", "+"}
        body == IF signed THEN Tail(s) ELSE s
        ok == body # <<>> /\ \A k \in 1..Len(body) : IsDigit(body[k])
        mag == digits_value(body, 0)
    IN  IF ~ok THEN Raise("ValueError")
        ELSE Return(IF signed /\ Head(s) = "-" THEN -mag ELSE mag)

\* int( v ) for a scalar.
py_int(v) ==
    IF v.type = "int" THEN Return(v.val)
    ELSE IF v.type = "float" THEN Return(int_float(v.val))
    ELSE IF v.type = "nan" THEN Raise("ValueError")
    ELSE IF v.type = "inf" THEN Raise("OverflowError")
    ELSE int_str(v.val)

\* list( map( int, positions ) )
RECURSIVE map_int(_, _, _)
map_int(positions, i, out) ==
    IF i > Len(positions) THEN Return(out)
    ELSE LET e == py_int(positions[i])
         IN  IF e.exc # "" THEN Raise(e.exc)
             ELSE map_int(positions, i + 1, Append(out, e.value))

\* sorted( set( positions ) )
RECURSIVE sorted_set(_)
sorted_set(S) ==
    IF S = {} THEN <<>>
    ELSE LET m == CHOOSE x \in S : \A y \in S : x <= y
         IN  <<m>> \o sorted_set(S \ {m})

\* Mutant: off by one, neighbouring positions count as a gap.
is_gap_off_by_one(x, y) == x + 1 <= y

\* The condition of the comprehension: x and y are consecutive elements of
\* the sorted positions.
is_gap(x, y) == x + 1 < y

\* sum( gaps, [] ): x, y of every gap, in order.
RECURSIVE gap_edges(_, _)
gap_edges(positions, k) ==
    IF k >= Len(positions) THEN <<>>
    ELSE (IF is_gap(positions[k], positions[k + 1])
          THEN <<positions[k], positions[k + 1]>>
          ELSE <<>>)
         \o gap_edges(positions, k + 1)

\* list( zip( edges, edges ) ) over one iterator: consecutive pairs.
RECURSIVE zip_pairs(_)
zip_pairs(edges) ==
    IF Len(edges) < 2 THEN <<>>
    ELSE <<<<edges[1], edges[2]>>>> \o zip_pairs(SubSeq(edges, 3, Len(edges)))

ranges(positions) ==
    LET ints == map_int(positions, 1, <<>>)
    IN  IF ints.exc # "" THEN Raise(ints.exc)
        ELSE LET sorted_pos == sorted_set(Elements(ints.value))
                 edges == SubSeq(sorted_pos, 1, Min(1, Len(sorted_pos)))
                          \o gap_edges(sorted_pos, 1)
                          \o SubSeq(sorted_pos, Max(1, Len(sorted_pos)),
                                    Len(sorted_pos))
             IN  Return(zip_pairs(edges))

\* Bounds of the position lists ranges is called with.
MaxRangePos == 7
MaxPositions == 5

InitRanges ==
    /\ pc = "ready"
    /\ fn = "ranges"
    /\ args \in {[positions |-> L] :
                    L \in SeqUpTo({PyInt(n) : n \in 1..MaxRangePos},
                                  MaxPositions)}
    /\ ret = NoCall
    /\ ret2 = NoCall

CallRanges ==
    /\ pc = "ready"
    /\ fn = "ranges"
    /\ ret' = ranges(args.positions)
    /\ pc' = "done"
    /\ UNCHANGED <<fn, args, ret2>>

SpecRanges == InitRanges /\ [][CallRanges]_vars

RangesDone == pc = "done" /\ fn = "ranges"

PositionSet == {args.positions[k].val : k \in 1..Len(args.positions)}

\* C10: ranges returns, ascending, closed intervals (start, end) all of whose
\* integers are input positions while start - 1 and end + 1 are not, and
\* the intervals cover exactly the set of input positions.
RangesMaximalRuns ==
    RangesDone =>
        /\ ret.exc = ""
        /\ \A k \in 1..Len(ret.value) :
              /\ Len(ret.value[k]) = 2
              /\ ret.value[k][1] <= ret.value[k][2]
              /\ ret.value[k][1]..ret.value[k][2] \subseteq PositionSet
              /\ (ret.value[k][1] - 1) \notin PositionSet
              /\ (ret.value[k][2] + 1) \notin PositionSet
        /\ \A k \in 1..(Len(ret.value) - 1) :
              ret.value[k][2] < ret.value[k + 1][1]
        /\ Cover(ret.value) = PositionSet

\* C10 witness: an unsorted input with a repeated position gave three runs,
\* one of them a single position.
RangesWitness ==
    /\ RangesDone
    /\ Cardinality(PositionSet) < Len(args.positions)
    /\ \E k \in 1..(Len(args.positions) - 1) :
          args.positions[k].val > args.positions[k + 1].val
    /\ ret.exc = ""
    /\ Len(ret.value) = 3
    /\ \E k \in 1..3 : ret.value[k][1] = ret.value[k][2]
    /\ \E k \in 1..3 : ret.value[k][1] < ret.value[k][2]

(***************************************************************************)
(* Region Consolidator: consolidate_regions                                *)
(***************************************************************************)

\* s.split( sep ) for a one-character sep: the pieces between the
\* occurrences of sep, empty pieces included.
RECURSIVE split_from(_, _, _, _, _)
split_from(s, sep, k, piece, out) ==
    IF k > Len(s) THEN Append(out, piece)
    ELSE IF s[k] = sep THEN split_from(s, sep, k + 1, <<>>, Append(out, piece))
    ELSE split_from(s, sep, k + 1, Append(piece, s[k]), out)

split(s, sep) == split_from(s, sep, 1, <<>>, <<>>)

\* Mutant: a token without "-" is read as a region of a single position.
parse_region_single(x) ==
    LET parts == split(x, "-")
        a == int_str(parts[1])
    IN  IF a.exc # "" THEN Raise(a.exc)
        ELSE IF Len(parts) < 2 THEN Return(<<a.value, a.value>>)
        ELSE LET b == int_str(parts[2])
             IN  IF b.exc # "" THEN Raise(b.exc)
                 ELSE Return(<<a.value, b.value>>)

\* ( int( x.split( "-" )[0] ), int( x.split( "-" )[1] ) ): the start is
\* converted before the end is read.
parse_region(x) ==
    LET parts == split(x, "-")
        a == int_str(parts[1])
    IN  IF a.exc # "" THEN Raise(a.exc)
        ELSE IF Len(parts) < 2 THEN Raise("IndexError")
        ELSE LET b == int_str(parts[2])
             IN  IF b.exc # "" THEN Raise(b.exc)
                 ELSE Return(<<a.value, b.value>>)

\* The list comprehension over disorder_regions.split( "," ).
RECURSIVE parse_regions(_, _, _)
parse_regions(tokens, k, out) ==
    IF k > Len(tokens) THEN Return(out)
    ELSE LET r == parse_region(tokens[k])
         IN  IF r.exc # "" THEN Raise(r.exc)
             ELSE parse_regions(tokens, k + 1, Append(out, r.value))

\* [x for x in disorder_regions if ( x[1] - x[0] + 1 ) >= min_len]
RECURSIVE filter_min_len(_, _)
filter_min_len(regions, min_len) ==
    IF regions = <<>> THEN <<>>
    ELSE (IF regions[1][2] - regions[1][1] + 1 >= min_len
          THEN <<regions[1]>> ELSE <<>>)
         \o filter_min_len(Tail(regions), min_len)

\* Mutant: the short regions are dropped before the merge.
consolidate_regions_filter_first(disorder_regions, min_len) ==
    LET parsed == parse_regions(split(disorder_regions, ","), 1, <<>>)
    IN  IF parsed.exc # "" THEN Raise(parsed.exc)
        ELSE merge_overlapping_tuples(filter_min_len(parsed.value, min_len))

consolidate_regions(disorder_regions, min_len) ==
    LET parsed == parse_regions(split(disorder_regions, ","), 1, <<>>)
    IN  IF parsed.exc # "" THEN Raise(parsed.exc)
        ELSE LET merged == merge_overlapping_tuples(parsed.value)
             IN  IF merged.exc # "" THEN Raise(merged.exc)
                 ELSE Return(filter_min_len(merged.value, min_len))

\* "start-end,start-end,...": the string a database row holds for a list
\* of regions.
RECURSIVE regions_string(_)
regions_string(L) ==
    IF L = <<>> THEN <<>>
    ELSE str_int(L[1][1]) \o <<"-">> \o str_int(L[1][2])
         \o (IF Len(L) > 1 THEN <<",">> \o regions_string(Tail(L))
             ELSE <<>>)

\* Bounds of the calls of consolidate_regions: the number of positions, the
\* number of regions of a string and the minimum length.
MaxRegionPos == 4
MaxRegions == 3
MaxMinLen == 3

\* Positions 8, 9, 10, ...: of one digit and of two.
RegionIntervals ==
    {t \in (8..(7 + MaxRegionPos)) \X (8..(7 + MaxRegionPos)) : t[1] <= t[2]}

RegionLists == SeqUpTo(RegionIntervals, MaxRegions)

\* Well-formed calls: the string of a non-empty list of closed intervals.
\* written_from is no argument of the call: it records the intervals the
\* string was written from.
InitConsolidate ==
    /\ pc = "ready"
    /\ fn = "consolidate_regions"
    /\ args \in {[disorder_regions |-> regions_string(L), min_len |-> n,
                  written_from |-> L] :
                    L \in RegionLists \ {<<>>}, n \in 1..MaxMinLen}
    /\ ret = NoCall
    /\ ret2 = NoCall

CallConsolidate ==
    /\ pc = "ready"
    /\ fn = "consolidate_regions"
    /\ ret' = consolidate_regions(args.disorder_regions, args.min_len)
    /\ pc' = "done"
    /\ UNCHANGED <<fn, args, ret2>>

SpecConsolidate == InitConsolidate /\ [][CallConsolidate]_vars

ConsolidateDone == pc = "done" /\ fn = "consolidate_regions"

\* The intervals the string of the call stands for.
ParsedIntervals == args.written_from

IntervalLen(t) == t[2] - t[1] + 1

\* The subsequence of L of the intervals of length at least n.
LongEnough(L, n) ==
    LET keep == {k \in 1..Len(L) : IntervalLen(L[k]) >= n}
        Rank(k) == Cardinality({j \in keep : j <= k})
    IN  [r \in 1..Cardinality(keep) |->
            L[CHOOSE k \in keep : Rank(k) = r]]

\* C11: for a well-formed string the call returns exactly the intervals of
\* merge_overlapping_tuples(parsed intervals) of length at least min_len,
\* in the merger's order; so an input interval shorter than min_len that
\* lies in a merged interval of length at least min_len is covered by the
\* result.
ConsolidateMergesThenFilters ==
    ConsolidateDone =>
        LET merged == merge_overlapping_tuples(ParsedIntervals).value
        IN  /\ ret = Return(LongEnough(merged, args.min_len))
            /\ \A k \in 1..Len(ParsedIntervals) :
                  \A j \in 1..Len(merged) :
                      (/\ ParsedIntervals[k][1] >= merged[j][1]
                       /\ ParsedIntervals[k][2] <= merged[j][2]
                       /\ IntervalLen(merged[j]) >= args.min_len)
                      => \E i \in 1..Len(ret.value) : ret.value[i] = merged[j]

\* C11 witness: every input interval is shorter than min_len, they merged
\* into one interval that is long enough and is returned, and another
\* merged interval was dropped.
ConsolidateWitness ==
    /\ ConsolidateDone
    /\ \A k \in 1..Len(ParsedIntervals) :
          IntervalLen(ParsedIntervals[k]) < args.min_len
    /\ ret.exc = ""
    /\ Len(ret.value) = 1
    /\ Len(merge_overlapping_tuples(ParsedIntervals).value) = 2

\* Bound of the length of an arbitrary string passed to consolidate_regions.
MaxChars == 5

RegionChars == {"1", "2", "-", ",", "A"}

\* Calls with any string, well-formed or not.
InitConsolidateRaw ==
    /\ pc = "ready"
    /\ fn = "consolidate_regions"
    /\ args \in {[disorder_regions |-> str, min_len |-> n] :
                    str \in SeqUpTo(RegionChars, MaxChars),
                    n \in 1..MaxMinLen}
    /\ ret = NoCall
    /\ ret2 = NoCall

SpecConsolidateRaw == InitConsolidateRaw /\ [][CallConsolidate]_vars

\* The comma-separated tokens of the string of the call.
CommaTokens ==
    LET str == args.disorder_regions
        cuts == {0, Len(str) + 1} \cup {k \in 1..Len(str) : str[k] = ","}
    IN  {SubSeq(str, a + 1, b - 1) :
            <<a, b>> \in {c \in cuts \X cuts :
                             /\ c[1] < c[2]
                             /\ \A k \in cuts : ~(c[1] < k /\ k < c[2])}}

Numeric(u) == u # <<>> /\ \A k \in 1..Len(u) : IsDigit(u[k])

\* A token with no "-", or whose text before the first "-" (the start) or
\* between the first "-" and the next one or the end of the token (the end)
\* is not a number.
MalformedToken(t) ==
    LET dashes == {k \in 1..Len(t) : t[k] = "-"}
        first == CHOOSE k \in dashes : \A j \in dashes : k <= j
        after == {k \in dashes : k > first} \cup {Len(t) + 1}
        second == CHOOSE k \in after : \A j \in after : k <= j
    IN  \/ dashes = {}
        \/ ~Numeric(SubSeq(t, 1, first - 1))
        \/ ~Numeric(SubSeq(t, first + 1, second - 1))

\* C12: when some comma-separated token has no "-" or has a non-numeric
\* start or end, the call raises and no list of regions is returned; a
\* string without such a token is converted without an error.
ConsolidateFailsOnMalformed ==
    ConsolidateDone =>
        IF \E t \in CommaTokens : MalformedToken(t)
        THEN ret.exc \in {"ValueError", "IndexError"} /\ ret.value = <<>>
        ELSE ret.exc = ""

\* C12 witness: a well-formed token is followed by one that has no "-", so
\* that a region had been parsed when the call failed.
ConsolidateMalformedWitness ==
    /\ ConsolidateDone
    /\ ret.exc = "IndexError"
    /\ \E k \in 1..Len(args.disorder_regions) :
          /\ args.disorder_regions[k] = ","
          /\ parse_region(SubSeq(args.disorder_regions, 1, k - 1)).exc = ""
          /\ \A j \in (k + 1)..Len(args.disorder_regions) :
                IsDigit(args.disorder_regions[j])

(***************************************************************************)
(* Null Stripper: remove_nulls, remove_nulls2                              *)
(***************************************************************************)

\* Mutant: the indices are collected whether or not an index list is given.
track_index_always(index_list) == TRUE

\* if len( index_list ) != 0
track_index(index_list) == Len(index_list) # 0

\* The loop of remove_nulls over the normalised positions; idx is 0-based.
RECURSIVE remove_nulls_loop(_, _, _, _, _)
remove_nulls_loop(positions, index_list, idx, new_pos, new_ind) ==
    IF idx >= Len(positions) THEN <<new_pos, new_ind>>
    ELSE IF positions[idx + 1] # null
    THEN remove_nulls_loop(positions, index_list, idx + 1,
                           Append(new_pos, positions[idx + 1]),
                           IF track_index(index_list)
                           THEN Append(new_ind, idx) ELSE new_ind)
    ELSE remove_nulls_loop(positions, index_list, idx + 1, new_pos, new_ind)

\* Returns the tuple ( new_pos, new_ind ).
remove_nulls(positions, index_list) ==
    LET p == convert_to_str(positions, null)
    IN  IF p.exc # "" THEN Raise(p.exc)
        ELSE Return(remove_nulls_loop(p.value, index_list, 0, <<>>, <<>>))

\* Mutant: a run is flushed at every missing token, empty or not.
flush_run_always(runs, tmp, wanted) ==
    IF wanted THEN Append(runs, tmp) ELSE runs

\* if tmp_pos != []: new_pos.append( tmp_pos ), and likewise new_ind when an
\* index list is given.  runs is the list appended to, tmp the run, wanted
\* tells whether this list is collected at all.
flush_run(runs, tmp, wanted) ==
    IF wanted /\ tmp # <<>> THEN Append(runs, tmp) ELSE runs

\* The loop of remove_nulls2 and the flush after it.  tmp_ind is empty
\* exactly when tmp_pos is, or when no index list is given.
RECURSIVE remove_nulls2_loop(_, _, _, _, _, _, _)
remove_nulls2_loop(positions, index_list, idx, new_pos, new_ind, tmp_pos, tmp_ind) ==
    IF idx >= Len(positions)
    THEN <<flush_run(new_pos, tmp_pos, TRUE),
           IF tmp_pos # <<>>
           THEN flush_run(new_ind, tmp_ind, track_index(index_list))
           ELSE new_ind>>
    ELSE IF positions[idx + 1] # null
    THEN remove_nulls2_loop(positions, index_list, idx + 1, new_pos, new_ind,
                            Append(tmp_pos, positions[idx + 1]),
                            IF track_index(index_list)
                            THEN Append(tmp_ind, idx) ELSE tmp_ind)
    ELSE remove_nulls2_loop(positions, index_list, idx + 1,
                            flush_run(new_pos, tmp_pos, TRUE),
                            IF tmp_pos # <<>>
                            THEN flush_run(new_ind, tmp_ind,
                                           track_index(index_list))
                            ELSE new_ind,
                            <<>>, <<>>)

\* Returns the tuple ( new_pos, new_ind ) of lists of runs.
remove_nulls2(positions, index_list) ==
    LET p == convert_to_str(positions, null)
    IN  IF p.exc # "" THEN Raise(p.exc)
        ELSE Return(remove_nulls2_loop(p.value, index_list, 0, <<>>, <<>>,
                                       <<>>, <<>>))

\* Bound of the length of a position stream.
MaxStream == 5

StreamVals == {PyInt(11), PyFloat(125), PyStr(<<"1", "3">>), NaN, PyStr(null)}

\* The index list is absent, holds a value that is no index of the
\* stream, or holds the indices of the stream.
IndexLists(p) == {<<>>, <<40>>, [k \in 1..Len(p) |-> k - 1]}

InitRemoveNulls ==
    /\ pc = "ready"
    /\ fn = "remove_nulls"
    /\ \E p \in SeqUpTo(StreamVals, MaxStream) :
          args \in {[positions |-> p, index_list |-> ix] :
                      ix \in IndexLists(p)}
    /\ ret = NoCall
    /\ ret2 = NoCall

CallRemoveNulls ==
    /\ pc = "ready"
    /\ fn = "remove_nulls"
    /\ ret' = remove_nulls(args.positions, args.index_list)
    /\ pc' = "done"
    /\ UNCHANGED <<fn, args, ret2>>

SpecRemoveNulls == InitRemoveNulls /\ [][CallRemoveNulls]_vars

InitRemoveNulls2 ==
    /\ pc = "ready"
    /\ fn = "remove_nulls2"
    /\ \E p \in SeqUpTo(StreamVals, MaxStream) :
          args \in {[positions |-> p, index_list |-> ix] :
                      ix \in IndexLists(p)}
    /\ ret = NoCall
    /\ ret2 = NoCall

CallRemoveNulls2 ==
    /\ pc = "ready"
    /\ fn = "remove_nulls2"
    /\ ret' = remove_nulls2(args.positions, args.index_list)
    /\ pc' = "done"
    /\ UNCHANGED <<fn, args, ret2>>

SpecRemoveNulls2 == InitRemoveNulls2 /\ [][CallRemoveNulls2]_vars

\* The indices (1-based) of the stream that hold a token, and the r-th of
\* them.
Present == {k \in 1..Len(args.positions) : ~IsMissing(args.positions[k])}
NthPresent(r) ==
    CHOOSE k \in Present : Cardinality({j \in Present : j <= k}) = r

\* C13: remove_nulls returns the normalised non-missing tokens of the
\* stream in their order, with the 0-based stream index of each of them
\* when a non-empty index list is given and with an empty index list
\* otherwise.
RemoveNullsKeepsTokens ==
    (pc = "done" /\ fn = "remove_nulls") =>
        /\ ret.exc = ""
        /\ ret.value[1] =
              [r \in 1..Cardinality(Present) |->
                  Token(args.positions[NthPresent(r)])]
        /\ ret.value[2] =
              IF args.index_list # <<>>
              THEN [r \in 1..Cardinality(Present) |-> NthPresent(r) - 1]
              ELSE <<>>

\* C13 witness: a stream with missing tokens before, between and after its
\* tokens was stripped with an index list.
RemoveNullsWitness ==
    /\ pc = "done" /\ fn = "remove_nulls"
    /\ Len(args.positions) = 5
    /\ args.index_list # <<>>
    /\ Present = {2, 4}
    /\ ret.exc = ""
    /\ ret.value[2] = <<1, 3>>

\* The first indices of the maximal blocks of consecutive tokens, the r-th
\* of them, and the last index of the block that starts at a.
BlockStarts ==
    {k \in Present : k = 1 \/ (k - 1) \notin Present}
NthBlockStart(r) ==
    CHOOSE k \in BlockStarts : Cardinality({j \in BlockStarts : j <= k}) = r
BlockEnd(a) ==
    CHOOSE b \in a..Len(args.positions) :
        /\ a..b \subseteq Present
        /\ (b + 1) \notin Present

RECURSIVE Flatten(_)
Flatten(runs) ==
    IF runs = <<>> THEN <<>> ELSE Head(runs) \o Flatten(Tail(runs))

\* C14: remove_nulls2 returns one run per maximal block of consecutive
\* non-missing tokens, in stream order; no run is empty; the runs put
\* together are the list remove_nulls returns for the same stream.
RemoveNulls2MaximalRuns ==
    (pc = "done" /\ fn = "remove_nulls2") =>
        /\ ret.exc = ""
        /\ ret.value[1] =
              [r \in 1..Cardinality(BlockStarts) |->
                  [k \in 1..(BlockEnd(NthBlockStart(r)) - NthBlockStart(r) + 1)
                     |-> Token(args.positions[NthBlockStart(r) + k - 1])]]
        /\ \A r \in 1..Len(ret.value[1]) : ret.value[1][r] # <<>>
        /\ Flatten(ret.value[1]) =
              remove_nulls(args.positions, args.index_list).value[1]

\* C14 witness: a stream that starts with a missing token and has two
\* missing tokens in a row gave two runs.
RemoveNulls2Witness ==
    /\ pc = "done" /\ fn = "remove_nulls2"
    /\ Present = {2, 5}
    /\ ret.exc = ""
    /\ Len(ret.value[1]) = 2

(***************************************************************************)
(* Token Normalizer: the calls of convert_to_str on its own                *)
(***************************************************************************)

\* Bound of the length of the list given to convert_to_str.
MaxConvLen == 3

\* ints, finite floats (12.6, -1.5), NaN, infinity, "null", and strings:
\* float literals, strings with digits among other characters, strings with
\* no digit.
ConvVals ==
    {PyInt(7), PyInt(-3), PyFloat(126), PyFloat(-15), NaN, Inf, PyStr(null),
     PyStr(<<"1", "2">>), PyStr(<<"1", ".", "9">>),
     PyStr(<<"-", "0", ".", "5">>), PyStr(<<"A", "1", "B", "2">>),
     PyStr(<<"A", "B">>), PyStr(<<"1", "-", "2">>), PyStr(<<>>)}

InitConvert ==
    /\ pc = "ready"
    /\ fn = "convert_to_str"
    /\ args \in {[plist |-> p, add |-> a] :
                    p \in SeqUpTo(ConvVals, MaxConvLen), a \in AddVals}
    /\ ret = NoCall
    /\ ret2 = NoCall

CallConvert ==
    /\ pc = "ready"
    /\ fn = "convert_to_str"
    /\ ret' = convert_to_str(args.plist, args.add)
    /\ pc' = "done"
    /\ UNCHANGED <<fn, args, ret2>>

SpecConvert == InitConvert /\ [][CallConvert]_vars

ConvertDone == pc = "done" /\ fn = "convert_to_str"

\* The integer a decimal string writes: an optional "-" and digits with no
\* zero in front (the only string for that integer).
IsDecimal(tok) ==
    LET body == IF tok # <<>> /\ Head(tok) = "-" THEN Tail(tok) ELSE tok
    IN  /\ body # <<>>
        /\ \A k \in 1..Len(body) : IsDigit(body[k])
        /\ Len(body) > 1 => body[1] # "0"
        /\ tok # <<"-", "0">>
DecimalValue(tok) ==
    IF Head(tok) = "-" THEN -digits_value(Tail(tok), 0)
    ELSE digits_value(tok, 0)

\* n is the float t / 10 with its fraction dropped.
IsTruncation(n, t) ==
    /\ 10 * Abs(n) <= Abs(t)
    /\ Abs(t) < 10 * (Abs(n) + 1)
    /\ n * t >= 0

\* s writes a number: a sign or none, then w digits, then nothing or a point
\* and digits, with a digit somewhere.
NumericSplits(s) ==
    LET signed == s # <<>> /\ Head(s) \in {"-", "+"}
        body == IF signed THEN Tail(s) ELSE s
    IN  {w \in 0..Len(body) :
            /\ \A k \in 1..w : IsDigit(body[k])
            /\ w < Len(body) =>
                  /\ body[w + 1] = "."
                  /\ \A k \in (w + 2)..Len(body) : IsDigit(body[k])
            /\ \E k \in 1..Len(body) : IsDigit(body[k])}
IsNumeric(s) == NumericSplits(s) # {}
TruncatedValue(s) ==
    LET signed == s # <<>> /\ Head(s) \in {"-", "+"}
        body == IF signed THEN Tail(s) ELSE s
        w == CHOOSE k \in NumericSplits(s) : TRUE
        mag == digits_value(SubSeq(body, 1, w), 0)
    IN  IF signed /\ Head(s) = "-" THEN -mag ELSE mag

\* C15: convert_to_str returns a list as long as its input; element i is the
\* marker when input i is NaN or "null", the decimal string of the truncated
\* value when input i is an int, a float or a numeric string, and the digits
\* of input i in their order otherwise.  No integer is the truncation of an
\* infinite float.
ConvertContract ==
    ConvertDone =>
        /\ ret.exc = ""
        /\ Len(ret.value) = Len(args.plist)
        /\ \A i \in 1..Len(args.plist) :
              LET v == args.plist[i]
                  tok == ret.value[i]
              IN  IF IsMissing(v) THEN tok = args.add
                  ELSE IF v.type = "int"
                  THEN IsDecimal(tok) /\ DecimalValue(tok) = v.val
                  ELSE IF v.type = "float"
                  THEN IsDecimal(tok)
                       /\ IsTruncation(DecimalValue(tok), v.val)
                  ELSE IF v.type = "inf" THEN FALSE
                  ELSE IF IsNumeric(v.val)
                  THEN IsDecimal(tok)
                       /\ DecimalValue(tok) = TruncatedValue(v.val)
                  ELSE tok = SelectSeq(v.val, IsDigit)

\* C16: convert_to_str never raises an exception, whatever scalars its
\* input holds, infinite floats among them.
ConvertNeverRaises == ConvertDone => ret.exc = ""

(***************************************************************************)
(* Gap filling: add_residue_positions                                      *)
(*                                                                         *)
(* The position lists are not normalised here: the scalars are compared    *)
(* with == as Python does it, so 14 and 14.0 are the same position and 14  *)
(* and "14" are not.                                                       *)
(***************************************************************************)

\* a == b for two scalars.  A NaN equals nothing; whether the in operator
\* still finds it depends on the objects of the caller, and the position
\* lists drawn below hold none.
py_eq(a, b) ==
    IF a.type = "str" \/ b.type = "str"
    THEN a.type = b.type /\ a.val = b.val
    ELSE IF a.type = "nan" \/ b.type = "nan" THEN FALSE
    ELSE IF a.type = "inf" \/ b.type = "inf" THEN a.type = b.type
    ELSE (IF a.type = "int" THEN 10 * a.val ELSE a.val)
         = (IF b.type = "int" THEN 10 * b.val ELSE b.val)

\* pos in plist
py_in(pos, plist) == \E k \in 1..Len(plist) : py_eq(pos, plist[k])

\* Mutant: the query position is kept whether the target has it or not.
residue_entry_keep(pos, target_pos, add_null) == pos

\* Mutant: add is "null" whatever add_null says.
residue_entry_always_null(pos, target_pos, add_null) ==
    IF ~py_in(pos, target_pos) THEN PyStr(null) ELSE pos

\* Mutant: the test of membership is inverted.
residue_entry_inverted(pos, target_pos, add_null) ==
    LET add == IF add_null THEN PyStr(null) ELSE pos
    IN  IF py_in(pos, target_pos) THEN add ELSE pos

\* The element appended for one query position.
residue_entry(pos, target_pos, add_null) ==
    LET add == IF add_null THEN PyStr(null) ELSE pos
    IN  IF ~py_in(pos, target_pos) THEN add ELSE pos

\* Mutant: a query position the target does not have is left out.
RECURSIVE residue_loop_skip(_, _, _, _, _)
residue_loop_skip(query_pos, target_pos, add_null, i, positions) ==
    IF i > Len(query_pos) THEN positions
    ELSE residue_loop_skip(query_pos, target_pos, add_null, i + 1,
                           IF py_in(query_pos[i], target_pos)
                           THEN Append(positions, query_pos[i])
                           ELSE positions)

RECURSIVE residue_loop(_, _, _, _, _)
residue_loop(query_pos, target_pos, add_null, i, positions) ==
    IF i > Len(query_pos) THEN positions
    ELSE residue_loop(query_pos, target_pos, add_null, i + 1,
                      Append(positions,
                             residue_entry(query_pos[i], target_pos,
                                           add_null)))

add_residue_positions(query_pos, target_pos, add_null) ==
    LET positions == residue_loop(query_pos, target_pos, add_null, 1, <<>>)
    IN  IF Len(positions) # Len(query_pos) THEN Raise("Exception")
        ELSE Return(positions)

\* Bounds of the lengths of the query and of the target list.
MaxQuery == 3
MaxResTarget == 2

ResidueVals ==
    {PyInt(14), PyInt(15), PyFloat(150), PyStr(<<"1", "5">>), PyStr(null)}

\* The lists of the test cases of the source: the ints from, from + 1, ...
IntRange(from, n) == [k \in 1..n |-> PyInt(from + k - 1)]

\* Small lists of mixed scalars, and the queries 11..18 and 11..19 with the
\* targets of the test cases.
InitResidue ==
    /\ pc = "ready"
    /\ fn = "add_residue_positions"
    /\ \/ args \in {[query_pos |-> q, target_pos |-> t, add_null |-> b] :
                       q \in SeqUpTo(ResidueVals, MaxQuery),
                       t \in SeqUpTo(ResidueVals, MaxResTarget),
                       b \in BOOLEAN}
       \/ args \in {[query_pos |-> IntRange(11, n), target_pos |-> t,
                      add_null |-> b] :
                       n \in {8, 9},
                       t \in {IntRange(14, 5), IntRange(11, 4),
                              IntRange(18, 2)},
                       b \in BOOLEAN}
    /\ ret = NoCall
    /\ ret2 = NoCall

CallResidue ==
    /\ pc = "ready"
    /\ fn = "add_residue_positions"
    /\ ret' = add_residue_positions(args.query_pos, args.target_pos,
                                    args.add_null)
    /\ pc' = "done"
    /\ UNCHANGED <<fn, args, ret2>>

SpecResidue == InitResidue /\ [][CallResidue]_vars

ResidueDone == pc = "done" /\ fn = "add_residue_positions"

\* C17: with add_null = True add_residue_positions returns a list as long
\* as query_pos whose i-th element is query_pos[i] when that position
\* occurs in target_pos and "null" otherwise; a position of target_pos that
\* is not in query_pos is nowhere in the result ("null" is the marker, not a
\* position).
ResidueFollowsQuery ==
    (ResidueDone /\ args.add_null) =>
        /\ ret.exc = ""
        /\ Len(ret.value) = Len(args.query_pos)
        /\ \A i \in 1..Len(args.query_pos) :
              ret.value[i] =
                 IF \E k \in 1..Len(args.target_pos) :
                       py_eq(args.query_pos[i], args.target_pos[k])
                 THEN args.query_pos[i] ELSE PyStr(null)
        /\ \A k \in 1..Len(args.target_pos) :
              (/\ args.target_pos[k] # PyStr(null)
               /\ \A i \in 1..Len(args.query_pos) :
                     ~py_eq(args.query_pos[i], args.target_pos[k]))
              => \A j \in 1..Len(ret.value) :
                    ~py_eq(ret.value[j], args.target_pos[k])

\* C17 witness: a query with a position the target has, written as another
\* type, and one it has not, and a target position outside the query.
ResidueWitness ==
    /\ ResidueDone /\ args.add_null
    /\ args.query_pos = <<PyInt(15), PyInt(14)>>
    /\ args.target_pos = <<PyFloat(150), PyStr(<<"1", "5">>)>>
    /\ ret = Return(<<PyInt(15), PyStr(null)>>)

\* The result the example gives.
ExampleResult ==
    <<PyStr(null), PyStr(null), PyStr(null)>> \o IntRange(14, 5)
    \o <<PyStr(null)>>

\* C18: add_residue_positions with the query positions 11 through 18, the
\* target [14, 15, 16, 17, 18] and add_null = True returns
\* ["null", "null", "null", 14, 15, 16, 17, 18, "null"].
ResidueExample ==
    (/\ ResidueDone /\ args.add_null
     /\ args.query_pos = IntRange(11, 8)
     /\ args.target_pos = IntRange(14, 5))
    => ret = Return(ExampleResult)

\* C18 as the code has it: the list of nine elements is the result for the
\* query positions 11 through 19 (the test case of the source); for 11
\* through 18 the result has eight elements and no "null" at its end.
ResidueExampleNine ==
    (/\ ResidueDone /\ args.add_null
     /\ args.target_pos = IntRange(14, 5))
    => /\ args.query_pos = IntRange(11, 9) => ret = Return(ExampleResult)
       /\ args.query_pos = IntRange(11, 8)
             => ret = Return(SubSeq(ExampleResult, 1, 8))

\* C18 witness: the call of the test case, with the query 11..19.
ResidueExampleWitness ==
    /\ ResidueDone /\ args.add_null
    /\ args.query_pos = IntRange(11, 9)
    /\ args.target_pos = IntRange(14, 5)
    /\ Len(ret.value) = 9

(***************************************************************************)
(* Gap filling: add_gaps                                                   *)
(***************************************************************************)

\* Mutant: the element is always put at the end.
py_insert_at_end(L, i, x) == Append(L, x)

\* list.insert( i, x ) for i >= 0: past the end of the list it appends.
py_insert(L, i, x) ==
    IF i >= Len(L) THEN Append(L, x)
    ELSE SubSeq(L, 1, i) \o <<x>> \o SubSeq(L, i + 1, Len(L))

\* res in a list of tokens
token_in(res, L) == \E k \in 1..Len(L) : L[k] = res

\* The loop over the query positions; i is 0-based.  target_pos[i] past the
\* end of the list raises IndexError.
RECURSIVE gaps_loop(_, _, _, _)
gaps_loop(query_pos, target_pos, add, i) ==
    IF i >= Len(query_pos) THEN [exc |-> "", target_pos |-> target_pos]
    ELSE LET res1 == query_pos[i + 1]
         IN  IF res1 = null
             THEN gaps_loop(query_pos, py_insert(target_pos, i, add), add,
                            i + 1)
             ELSE IF ~token_in(res1, target_pos)
             THEN gaps_loop(query_pos, py_insert(target_pos, i, add), add,
                            i + 1)
             ELSE IF i >= Len(target_pos)
             THEN [exc |-> "IndexError", target_pos |-> target_pos]
             ELSE IF target_pos[i + 1] # res1
             THEN gaps_loop(query_pos, py_insert(target_pos, i, add), add,
                            i + 1)
             ELSE gaps_loop(query_pos, target_pos, add, i + 1)

\* [target.insert( i, add ) for i, res in enumerate( target_pos ) if res == add]
RECURSIVE gaps_fill(_, _, _, _)
gaps_fill(target_pos, target, add, i) ==
    IF i >= Len(target_pos) THEN target
    ELSE gaps_fill(target_pos,
                   IF target_pos[i + 1] = add THEN py_insert(target, i, add)
                   ELSE target,
                   add, i + 1)

\* The call with its working lists: how it ends, and the lists the names
\* target_pos and target are bound to when it ends (converted is FALSE when
\* it ends before the lists are converted).
add_gaps_work(query_pos, target_pos, target, add) ==
    LET q == convert_to_str(query_pos, null)
        tp == convert_to_str(target_pos, null)
        tg == convert_to_str(target, null)
        none == [converted |-> FALSE, target_pos |-> <<>>, target |-> <<>>]
    IN  IF Len(target_pos) # Len(target)
        THEN [exc |-> "Exception"] @@ none
        ELSE IF q.exc # "" THEN [exc |-> q.exc] @@ none
        ELSE IF tp.exc # "" THEN [exc |-> tp.exc] @@ none
        ELSE IF tg.exc # "" THEN [exc |-> tg.exc] @@ none
        ELSE LET g == gaps_loop(q.value, tp.value, add, 0)
                 filled == gaps_fill(g.target_pos, tg.value, add, 0)
             IN  IF g.exc # ""
                 THEN [exc |-> g.exc, converted |-> TRUE,
                       target_pos |-> g.target_pos, target |-> tg.value]
                 ELSE [exc |-> IF Len(g.target_pos) # Len(filled)
                               THEN "Exception" ELSE "",
                       converted |-> TRUE,
                       target_pos |-> g.target_pos, target |-> filled]

add_gaps(query_pos, target_pos, target, add) ==
    LET w == add_gaps_work(query_pos, target_pos, target, add)
    IN  IF w.exc # "" THEN Raise(w.exc) ELSE Return(w.target)

\* Bound of the lengths of the three lists given to add_gaps.
MaxGapLen == 2

GapPosVals == {PyInt(11), PyFloat(125), PyStr(null)}
GapTargetVals == {PyInt(7), PyStr(null)}

InitGaps ==
    /\ pc = "ready"
    /\ fn = "add_gaps"
    /\ args \in {[query_pos |-> q, target_pos |-> tp, target |-> tg,
                  add |-> a] :
                    q \in SeqUpTo(GapPosVals, MaxGapLen),
                    tp \in SeqUpTo(GapPosVals, MaxGapLen),
                    tg \in SeqUpTo(GapTargetVals, MaxGapLen),
                    a \in AddVals}
    /\ ret = NoCall
    /\ ret2 = NoCall

CallGaps ==
    /\ pc = "ready"
    /\ fn = "add_gaps"
    /\ ret' = add_gaps(args.query_pos, args.target_pos, args.target, args.add)
    /\ pc' = "done"
    /\ UNCHANGED <<fn, args, ret2>>

SpecGaps == InitGaps /\ [][CallGaps]_vars

\* C19: add_gaps raises whenever the target, after the gaps are filled in,
\* is not as long as query_pos: every list it returns has len( query_pos )
\* elements.
GapsKeepQueryLength ==
    (pc = "done" /\ fn = "add_gaps" /\ ret.exc = "")
        => Len(ret.value) = Len(args.query_pos)

(***************************************************************************)
(* Frame: the lists of the caller after a call                             *)
(*                                                                         *)
(* A call runs on a store of objects: heap is the sequence of the objects, *)
(* the address of an object is its index, and env binds the names of the   *)
(* routine to addresses.  The lists of the caller are the first objects.   *)
(* Building a list ( [], sorted( ), a comprehension, list( map( ) ) )      *)
(* makes a new object; an assignment binds a name; remove, insert and      *)
(* append write to the object the name is bound to at that moment.  Each   *)
(* frame_ operator runs the statements of its routine that build, bind or  *)
(* write lists, in the order of the source, and stops at an exception.     *)
(* In the actions of this section args' is what the caller finds in its    *)
(* objects when the call has ended, by a return or by an exception.        *)
(***************************************************************************)

\* body( v ) with v computed once.
with_value(v, body(_)) == CHOOSE r \in {body(x) : x \in {v}} : TRUE

\* The store at the entry of a call: the arguments named by params are the
\* objects 1, 2, ... and each parameter name is bound to its object.
frame_entry(actuals, params) ==
    [heap |-> [k \in 1..Len(params) |-> actuals[params[k]]],
     env |-> [n \in {params[k] : k \in 1..Len(params)} |->
                 CHOOSE k \in 1..Len(params) : params[k] = n],
     exc |-> ""]

\* name = <a list built by the expression>: a new object holds value and
\* the name is bound to it; the object the name was bound to is left as is.
py_assign_new(st, dst, value) ==
    [st EXCEPT !.heap = Append(@, value),
               !.env = (dst :> (Len(st.heap) + 1)) @@ @]

\* Statements that change the object a name is bound to (remove, insert,
\* append): value is what the object holds after them.
py_write(st, name, value) ==
    [st EXCEPT !.heap[st.env[name]] = value]

\* Mutant: src.sort( ) followed by dst = src: the object itself is sorted
\* and the name is bound to it.
py_sort_in_place(st, dst, src) ==
    [st EXCEPT !.heap[st.env[src]] = sorted_tuples(@),
               !.env = (dst :> st.env[src]) @@ @]

\* dst = sorted( src ): sorted builds a list of its own.
py_sorted(st, dst, src) ==
    py_assign_new(st, dst, sorted_tuples(st.heap[st.env[src]]))

\* dst = f( ... ) for a call that ended as c: the name is bound to the
\* object the call returned; nothing is bound when the call raised.
py_assign_call(st, dst, c) ==
    with_value(c, LAMBDA result :
        [heap |-> result.heap,
         env |-> IF result.exc # "" THEN st.env
                 ELSE (dst :> result.addr) @@ st.env,
         exc |-> result.exc])

\* The routine ends here with exception e.
py_raise(st, e) == [st EXCEPT !.exc = e]

\* What a call leaves to its caller: the store and the object it returned.
frame_return(st, name) ==
    [heap |-> st.heap, addr |-> st.env[name], exc |-> st.exc]

\* new_list of convert_to_str when its loop ends, at the end of plist or by
\* the exception of an element: the tokens appended so far.
RECURSIVE convert_built(_, _, _, _)
convert_built(plist, add, i, new_list) ==
    IF i > Len(plist) THEN new_list
    ELSE LET e == convert_element(plist[i], add)
         IN  IF e.exc # "" THEN new_list
             ELSE convert_built(plist, add, i + 1, Append(new_list, e.value))

\* convert_to_str on the object at plist_addr: new_list is made empty, the
\* tokens are appended to it, and it is returned; plist is only read.
frame_convert_to_str(heap, plist_addr, add) ==
    LET r == convert_to_str(heap[plist_addr], add)
        st0 == [heap |-> heap, env |-> ("plist" :> plist_addr), exc |-> ""]
        st1 == py_assign_new(st0, "new_list", <<>>)
        st2 == py_write(st1, "new_list",
                   as_plist(convert_built(heap[plist_addr], add, 1, <<>>)))
    IN  frame_return(py_raise(st2, r.exc), "new_list")

\* The working list and merged_regions of merge_overlapping_tuples when the
\* loops end, at the end of the list or by an exception of remove( y ).
RECURSIVE merge_working_from(_, _, _)
merge_working_from(regions, i, merged_regions) ==
    IF i > Len(regions)
    THEN [disorder_regions |-> regions, merged_regions |-> merged_regions]
    ELSE LET x == regions[i]
             r == merge_inner(x, x[1], x[2],
                              SubSeq(regions, i + 1, Len(regions)), 1, regions)
         IN  IF r.exc # ""
             THEN [disorder_regions |-> r.regions,
                   merged_regions |-> merged_regions]
             ELSE merge_working_from(r.regions, i + 1,
                      Append(merged_regions, <<r.x1, r.x2>>))

\* merge_overlapping_tuples on the object at regions_addr: remove( y )
\* writes to the object disorder_regions is bound to after line 803.
frame_merge_overlapping_tuples(heap, regions_addr) ==
    LET r == merge_overlapping_tuples(heap[regions_addr])
        st0 == [heap |-> heap, env |-> ("disorder_regions" :> regions_addr),
                exc |-> ""]
        st1 == py_assign_new(st0, "merged_regions", <<>>)
        st2 == py_sorted(st1, "disorder_regions", "disorder_regions")
        w == merge_working_from(st2.heap[st2.env["disorder_regions"]], 1,
                                <<>>)
        st3 == py_write(st2, "disorder_regions", w.disorder_regions)
        st4 == py_write(st3, "merged_regions", w.merged_regions)
    IN  frame_return(py_raise(st4, r.exc), "merged_regions")

\* consolidate_regions: the argument is a str; the list of the
\* comprehension is handed to merge_overlapping_tuples.
frame_consolidate_regions(actuals) ==
    LET parsed == parse_regions(split(actuals.disorder_regions, ","), 1, <<>>)
        st0 == frame_entry(actuals, <<"disorder_regions">>)
        st1 == py_assign_new(st0, "merged_disorder_regions", <<>>)
        st2 == py_assign_new(st1, "disorder_regions", parsed.value)
        st3 == py_assign_call(st2, "disorder_regions",
                   frame_merge_overlapping_tuples(
                       st2.heap, st2.env["disorder_regions"]))
    IN  IF parsed.exc # "" THEN py_raise(st1, parsed.exc)
        ELSE IF st3.exc # "" THEN st3
        ELSE py_assign_new(st3, "merged_disorder_regions",
                 filter_min_len(st3.heap[st3.env["disorder_regions"]],
                                actuals.min_len))

\* add_gaps: insert writes to the objects target_pos and target are bound
\* to after the three assignments of lines 1296-1298; target is returned.
frame_add_gaps(actuals) ==
    with_value(frame_entry(actuals, <<"query_pos", "target_pos", "target">>),
    LAMBDA st0 :
        IF Len(actuals.target_pos) # Len(actuals.target)
        THEN py_raise(st0, "Exception")
        ELSE
    with_value(py_assign_call(st0, "query_pos",
                   frame_convert_to_str(st0.heap, st0.env["query_pos"], null)),
    LAMBDA st1 :
        IF st1.exc # "" THEN st1 ELSE
    with_value(py_assign_call(st1, "target_pos",
                   frame_convert_to_str(st1.heap, st1.env["target_pos"], null)),
    LAMBDA st2 :
        IF st2.exc # "" THEN st2 ELSE
    with_value(py_assign_call(st2, "target",
                   frame_convert_to_str(st2.heap, st2.env["target"], null)),
    LAMBDA st3 :
        IF st3.exc # "" THEN st3 ELSE
    with_value(add_gaps_work(actuals.query_pos, actuals.target_pos,
                             actuals.target, actuals.add),
    LAMBDA w :
    with_value(py_write(st3, "target_pos", as_plist(w.target_pos)),
    LAMBDA st4 :
        py_raise(py_write(st4, "target", as_plist(w.target)), w.exc)))))))

\* add_residue_positions: no parameter is assigned to; append is used on
\* positions, made at line 1114.
frame_add_residue_positions(actuals) ==
    LET st0 == frame_entry(actuals, <<"query_pos", "target_pos">>)
        st1 == py_assign_new(st0, "positions", <<>>)
    IN  py_write(st1, "positions",
            residue_loop(actuals.query_pos, actuals.target_pos,
                         actuals.add_null, 1, <<>>))

\* remove_nulls and remove_nulls2: positions is assigned the list of
\* convert_to_str( ); index_list is only measured; append is used on the
\* lists made in the first statement.
frame_remove_nulls(actuals, routine) ==
    LET r == IF routine = "remove_nulls"
             THEN remove_nulls(actuals.positions, actuals.index_list)
             ELSE remove_nulls2(actuals.positions, actuals.index_list)
        st0 == frame_entry(actuals, <<"positions", "index_list">>)
        st1 == py_assign_new(st0, "new_pos", <<>>)
        st2 == py_assign_new(st1, "new_ind", <<>>)
        st3 == py_assign_call(st2, "positions",
                   frame_convert_to_str(st2.heap, st2.env["positions"], null))
        st4 == py_write(st3, "new_pos", r.value[1])
    IN  IF st3.exc # "" THEN st3
        ELSE py_write(st4, "new_ind", r.value[2])

\* ranges: positions is assigned the list of list( map( ) ), then the one
\* of sorted( set( ) ); no list is written to.
frame_ranges(actuals) ==
    LET ints == map_int(actuals.positions, 1, <<>>)
        st0 == frame_entry(actuals, <<"positions">>)
        st1 == py_assign_new(st0, "positions", ints.value)
    IN  IF ints.exc # "" THEN py_raise(st0, ints.exc)
        ELSE py_assign_new(st1, "positions",
                           sorted_set(Elements(ints.value)))

\* modified_target of change_basis when its loop ends, at the end of
\* target_pos or by the exception of an element: what was appended so far.
RECURSIVE basis_built(_, _, _, _, _, _)
basis_built(uni, pdb, target, forward, i, modified_target) ==
    IF i > Len(target) THEN modified_target
    ELSE LET e == basis_element(uni, pdb, target[i], forward)
         IN  IF e.exc # "" THEN modified_target
             ELSE basis_built(uni, pdb, target, forward, i + 1,
                              Append(modified_target, e.value))

\* modified_target of change_basis2 when its loop ends, at the end of
\* indices or by the exception of mapping[idx].
RECURSIVE basis2_built(_, _, _, _)
basis2_built(mapping, indices, k, modified_target) ==
    IF k > Len(indices) THEN modified_target
    ELSE LET e == basis2_element(mapping, k - 1, indices[k])
         IN  IF e.exc # "" THEN modified_target
             ELSE basis2_built(mapping, indices, k + 1,
                               Append(modified_target, e.value))

\* change_basis: the three names are assigned the lists of
\* convert_to_str( ); append is used on modified_target.
frame_change_basis(actuals) ==
    with_value(py_assign_new(
                   frame_entry(actuals, <<"mapped_uni_pos", "mapped_pdb_pos",
                                          "target_pos">>),
                   "modified_target", <<>>),
    LAMBDA st1 :
    with_value(py_assign_call(st1, "mapped_uni_pos",
                   frame_convert_to_str(
                       st1.heap, st1.env["mapped_uni_pos"], null)),
    LAMBDA st2 :
        IF st2.exc # "" THEN st2 ELSE
    with_value(py_assign_call(st2, "mapped_pdb_pos",
                   frame_convert_to_str(
                       st2.heap, st2.env["mapped_pdb_pos"], null)),
    LAMBDA st3 :
        IF st3.exc # "" THEN st3 ELSE
    with_value(py_assign_call(st3, "target_pos",
                   frame_convert_to_str(
                       st3.heap, st3.env["target_pos"], actuals.add)),
    LAMBDA st4 :
        IF st4.exc # "" THEN st4 ELSE
    with_value(change_basis(actuals.mapped_uni_pos, actuals.mapped_pdb_pos,
                            actuals.target_pos, actuals.add, actuals.forward),
    LAMBDA r :
        py_raise(py_write(st4, "modified_target",
                     basis_built(
                         convert_to_str(actuals.mapped_uni_pos, null).value,
                         convert_to_str(actuals.mapped_pdb_pos, null).value,
                         convert_to_str(actuals.target_pos, actuals.add).value,
                         actuals.forward, 1, <<>>)),
                 r.exc))))))

\* change_basis2: mapping and target_pos are assigned the lists of
\* convert_to_str( ); indices is only read.
frame_change_basis2(actuals) ==
    with_value(py_assign_new(
                   frame_entry(actuals, <<"mapping", "target_pos", "indices">>),
                   "modified_target", <<>>),
    LAMBDA st1 :
    with_value(py_assign_call(st1, "mapping",
                   frame_convert_to_str(st1.heap, st1.env["mapping"], null)),
    LAMBDA st2 :
        IF st2.exc # "" THEN st2 ELSE
    with_value(py_assign_call(st2, "target_pos",
                   frame_convert_to_str(
                       st2.heap, st2.env["target_pos"], actuals.add)),
    LAMBDA st3 :
        IF st3.exc # "" THEN st3 ELSE
    with_value(change_basis2(actuals.mapping, actuals.target_pos,
                             actuals.indices, actuals.add),
    LAMBDA r :
        py_raise(py_write(st3, "modified_target",
                     IF contains_null(
                            convert_to_str(actuals.target_pos,
                                           actuals.add).value)
                     THEN <<>>
                     ELSE basis2_built(
                              convert_to_str(actuals.mapping, null).value,
                              actuals.indices, 1, <<>>)),
                 r.exc)))))

\* What the caller finds in the objects it passed as params when the call
\* has ended with the store heap.
caller_view(actuals, params, heap) ==
    [f \in DOMAIN actuals |->
        IF \E k \in 1..Len(params) : params[k] = f
        THEN heap[CHOOSE k \in 1..Len(params) : params[k] = f]
        ELSE actuals[f]]

\* Bound of the lengths of the lists of scalars given to the routines.
MaxFrameLen == 2

FrameVals == {PyInt(11), PyFloat(125), PyStr(null)}
FrameLists == SeqUpTo(FrameVals, MaxFrameLen)

InitFrame ==
    /\ pc = "ready"
    /\ \/ /\ fn = "merge_overlapping_tuples"
          /\ args \in {[disorder_regions |-> L] : L \in RegionLists}
       \/ /\ fn = "consolidate_regions"
          /\ args \in {[disorder_regions |-> regions_string(L),
                         min_len |-> 1] : L \in RegionLists \ {<<>>}}
       \/ /\ fn = "add_gaps"
          /\ args \in {[query_pos |-> q, target_pos |-> tp, target |-> tg,
                         add |-> null] :
                          q \in FrameLists, tp \in FrameLists,
                          tg \in FrameLists \cup {<<Inf>>}}
       \/ /\ fn = "add_residue_positions"
          /\ args \in {[query_pos |-> q, target_pos |-> tp, add_null |-> b] :
                          q \in FrameLists, tp \in FrameLists, b \in BOOLEAN}
       \/ /\ fn \in {"remove_nulls", "remove_nulls2"}
          /\ args \in {[positions |-> p, index_list |-> ix] :
                          p \in FrameLists \cup {<<PyInt(11), Inf>>},
                          ix \in {<<>>, <<0>>}}
       \/ /\ fn = "ranges"
          /\ args \in {[positions |-> p] : p \in FrameLists}
       \/ /\ fn = "change_basis"
          /\ args \in {[mapped_uni_pos |-> u, mapped_pdb_pos |-> p,
                         target_pos |-> t, add |-> null, forward |-> f] :
                          u \in FrameLists, p \in FrameLists \cup {<<Inf>>},
                          t \in FrameLists, f \in BOOLEAN}
       \/ /\ fn = "change_basis2"
          /\ args \in {[mapping |-> m, target_pos |-> t, indices |-> ix,
                         add |-> null] :
                          m \in FrameLists, t \in FrameLists,
                          ix \in SeqUpTo(0..1, MaxFrameLen)}
    /\ ret = NoCall
    /\ ret2 = NoCall

FrameMerge ==
    /\ pc = "ready"
    /\ fn = "merge_overlapping_tuples"
    /\ ret' = merge_overlapping_tuples(args.disorder_regions)
    /\ LET st0 == frame_entry(args, <<"disorder_regions">>)
       IN  args' = caller_view(args, <<"disorder_regions">>,
                       frame_merge_overlapping_tuples(st0.heap, 1).heap)
    /\ pc' = "done"
    /\ UNCHANGED <<fn, ret2>>

FrameConsolidate ==
    /\ pc = "ready"
    /\ fn = "consolidate_regions"
    /\ ret' = consolidate_regions(args.disorder_regions, args.min_len)
    /\ args' = caller_view(args, <<"disorder_regions">>,
                           frame_consolidate_regions(args).heap)
    /\ pc' = "done"
    /\ UNCHANGED <<fn, ret2>>

FrameGaps ==
    /\ pc = "ready"
    /\ fn = "add_gaps"
    /\ ret' = add_gaps(args.query_pos, args.target_pos, args.target, args.add)
    /\ args' = caller_view(args, <<"query_pos", "target_pos", "target">>,
                           frame_add_gaps(args).heap)
    /\ pc' = "done"
    /\ UNCHANGED <<fn, ret2>>

FrameResidue ==
    /\ pc = "ready"
    /\ fn = "add_residue_positions"
    /\ ret' = add_residue_positions(args.query_pos, args.target_pos,
                                    args.add_null)
    /\ args' = caller_view(args, <<"query_pos", "target_pos">>,
                           frame_add_residue_positions(args).heap)
    /\ pc' = "done"
    /\ UNCHANGED <<fn, ret2>>

FrameRemoveNulls ==
    /\ pc = "ready"
    /\ fn \in {"remove_nulls", "remove_nulls2"}
    /\ ret' = IF fn = "remove_nulls"
              THEN remove_nulls(args.positions, args.index_list)
              ELSE remove_nulls2(args.positions, args.index_list)
    /\ args' = caller_view(args, <<"positions", "index_list">>,
                           frame_remove_nulls(args, fn).heap)
    /\ pc' = "done"
    /\ UNCHANGED <<fn, ret2>>

FrameRanges ==
    /\ pc = "ready"
    /\ fn = "ranges"
    /\ ret' = ranges(args.positions)
    /\ args' = caller_view(args, <<"positions">>, frame_ranges(args).heap)
    /\ pc' = "done"
    /\ UNCHANGED <<fn, ret2>>

FrameChangeBasis ==
    /\ pc = "ready"
    /\ fn = "change_basis"
    /\ ret' = change_basis(args.mapped_uni_pos, args.mapped_pdb_pos,
                           args.target_pos, args.add, args.forward)
    /\ args' = caller_view(args,
                   <<"mapped_uni_pos", "mapped_pdb_pos", "target_pos">>,
                   frame_change_basis(args).heap)
    /\ pc' = "done"
    /\ UNCHANGED <<fn, ret2>>

FrameChangeBasis2 ==
    /\ pc = "ready"
    /\ fn = "change_basis2"
    /\ ret' = change_basis2(args.mapping, args.target_pos, args.indices,
                            args.add)
    /\ args' = caller_view(args, <<"mapping", "target_pos", "indices">>,
                           frame_change_basis2(args).heap)
    /\ pc' = "done"
    /\ UNCHANGED <<fn, ret2>>

NextFrame ==
    \/ FrameMerge
    \/ FrameConsolidate
    \/ FrameGaps
    \/ FrameResidue
    \/ FrameRemoveNulls
    \/ FrameRanges
    \/ FrameChangeBasis
    \/ FrameChangeBasis2

SpecFrame == InitFrame /\ [][NextFrame]_vars

\* C20: no routine changes a list it was passed: when a call has ended, by
\* a return or by an exception, every list of the caller holds the elements
\* it held before, in the same order.
FrameArgsKept == [][args' = args]_vars

\* C20 witness: add_gaps has inserted a gap into the list it returns, an
\* object it made itself, while the target of the caller is a non-empty
\* list.
FrameWitness ==
    /\ pc = "done" /\ fn = "add_gaps"
    /\ ret.exc = ""
    /\ args.target # <<>>
    /\ LET st == frame_add_gaps(args)
       IN  /\ st.env["target"] > 3
           /\ Len(st.heap[st.env["target"]]) > Len(args.target)
           /\ st.heap[st.env["target"]] = as_plist(ret.value)

(***************************************************************************)
(* Interval Merger: separated intervals                                    *)
(***************************************************************************)

\* Two closed intervals with at least one free position between them.
Separated(a, b) == a[2] + 2 <= b[1] \/ b[2] + 2 <= a[1]

PairwiseSeparated(L) ==
    \A j, k \in 1..Len(L) : j # k => Separated(L[j], L[k])

\* C21: when the intervals given to merge_overlapping_tuples are pairwise
\* disjoint and not adjacent, the result holds the same intervals, each
\* unchanged, in ascending order of their starts.
MergeKeepsSeparated ==
    (MergeDone /\ PairwiseSeparated(args.disorder_regions)) =>
        /\ ret.exc = ""
        /\ Len(ret.value) = Len(args.disorder_regions)
        /\ Elements(ret.value) = Elements(args.disorder_regions)
        /\ \A k \in 1..(Len(ret.value) - 1) :
              ret.value[k][1] < ret.value[k + 1][1]

\* C21 witness: three separated intervals, not given in ascending order,
\* came back.
MergeSeparatedWitness ==
    /\ MergeDone
    /\ Len(args.disorder_regions) = 3
    /\ PairwiseSeparated(args.disorder_regions)
    /\ args.disorder_regions[1][1] > args.disorder_regions[3][1]
    /\ Len(ret.value) = 3

(***************************************************************************)
(* Gap filling: add_gaps on a target that is part of the query             *)
(***************************************************************************)

GapsDone == pc = "done" /\ fn = "add_gaps"

\* The normalised streams of the call.
GapQuery == convert_to_str(args.query_pos, null).value
GapTargetPos == convert_to_str(args.target_pos, null).value
GapTarget == convert_to_str(args.target, null).value

\* The first index of the token t in the list L.
FirstAt(L, t) == CHOOSE k \in 1..Len(L) : L[k] = t /\ \A j \in 1..(k - 1) : L[j] # t

\* target_pos has no missing token and no token twice, and is a subsequence
\* of the distinct non-missing tokens of query_pos (taken in the order in
\* which they first occur); target is as long as target_pos.
GapsAligned ==
    /\ args.add = null
    /\ Len(args.target) = Len(args.target_pos)
    /\ \A k \in 1..Len(GapTargetPos) :
          /\ GapTargetPos[k] # null
          /\ token_in(GapTargetPos[k], GapQuery)
    /\ \A j, k \in 1..Len(GapTargetPos) :
          j < k => FirstAt(GapQuery, GapTargetPos[j])
                      < FirstAt(GapQuery, GapTargetPos[k])

\* C22: for such a call add_gaps returns a list as long as query_pos whose
\* i-th element is the normalised target value that stands at the place of
\* query_pos[i] in target_pos, and "null" when query_pos[i] is missing or
\* not in target_pos.
GapsFillByPosition ==
    (GapsDone /\ GapsAligned) =>
        /\ ret.exc = ""
        /\ Len(ret.value) = Len(GapQuery)
        /\ \A i \in 1..Len(GapQuery) :
              ret.value[i] =
                 IF token_in(GapQuery[i], GapTargetPos)
                 THEN GapTarget[FirstAt(GapTargetPos, GapQuery[i])]
                 ELSE null

\* C22 as the code has it: the same, for a query_pos in which no token
\* stands twice.  (A token that stands twice is looked for at its second
\* place in target_pos too: it gets "null" there, or the index is past the
\* end of target_pos.)
GapsFillDistinctQuery ==
    (/\ GapsDone /\ GapsAligned
     /\ \A i, j \in 1..Len(GapQuery) :
           (i # j /\ GapQuery[i] # null) => GapQuery[i] # GapQuery[j])
    => /\ ret.exc = ""
       /\ Len(ret.value) = Len(GapQuery)
       /\ \A i \in 1..Len(GapQuery) :
             ret.value[i] =
                IF token_in(GapQuery[i], GapTargetPos)
                THEN GapTarget[FirstAt(GapTargetPos, GapQuery[i])]
                ELSE null

\* C22 witness: a query of a position the target does not have and one it
\* has gave "null" and the value of the target.
GapsFillWitness ==
    /\ GapsDone /\ GapsAligned
    /\ Len(GapQuery) = 2
    /\ GapQuery[1] # null
    /\ GapQuery[1] # GapQuery[2]
    /\ GapTargetPos = <<GapQuery[2]>>
    /\ ret = Return(<<null, <<"7">>>>)

(***************************************************************************)
(* check_for_overlap                                                       *)
(*                                                                         *)
(* The position lists hold ints and are used as they are given.            *)
(***************************************************************************)

\* Mutant: the boundary residue always counts.
overlap_boundary_always(ignore_boundary) == 1

\* boundary = 0 if ignore_boundary else 1
overlap_boundary(ignore_boundary) == IF ignore_boundary THEN 0 ELSE 1

\* uni_pos[0] and uni_pos[-1] raise IndexError on an empty list.
check_for_overlap(uni_pos1, uni_pos2, ignore_boundary) ==
    IF uni_pos1 = <<>> \/ uni_pos2 = <<>> THEN Raise("IndexError")
    ELSE LET boundary == overlap_boundary(ignore_boundary)
             start1 == uni_pos1[1]
             end1 == uni_pos1[Len(uni_pos1)]
             start2 == uni_pos2[1]
             end2 == uni_pos2[Len(uni_pos2)]
             overlap == Max(0, Min(end1, end2) - Max(start1, start2)
                               + boundary)
         IN  Return(overlap > 0)

\* Bound of the positions of the lists given to check_for_overlap.
MaxOverlapPos == 7

\* The empty list, the lists a, a + 1, ..., b, and the lists of two
\* positions in any order.
OverlapLists ==
    {<<>>}
    \cup {[k \in 1..(b - a + 1) |-> a + k - 1] :
             a \in 1..MaxOverlapPos, b \in 1..MaxOverlapPos}
    \cup ((1..MaxOverlapPos) \X (1..MaxOverlapPos))

InitOverlap ==
    /\ pc = "ready"
    /\ fn = "check_for_overlap"
    /\ args \in {[uni_pos1 |-> p1, uni_pos2 |-> p2, ignore_boundary |-> b] :
                    p1 \in OverlapLists, p2 \in OverlapLists, b \in BOOLEAN}
    /\ ret = NoCall
    /\ ret2 = NoCall

CallOverlap ==
    /\ pc = "ready"
    /\ fn = "check_for_overlap"
    /\ ret' = check_for_overlap(args.uni_pos1, args.uni_pos2,
                                args.ignore_boundary)
    /\ pc' = "done"
    /\ UNCHANGED <<fn, args, ret2>>

SpecOverlap == InitOverlap /\ [][CallOverlap]_vars

OverlapDone == pc = "done" /\ fn = "check_for_overlap"

\* The closed range from the first to the last element of a list.
RangeOf(L) == L[1]..L[Len(L)]

\* C23: check_for_overlap takes each list as the closed range from its
\* first to its last element; it returns True exactly when the two ranges
\* share at least one position (ignore_boundary = False) or at least two
\* (ignore_boundary = True), and the same with its two lists exchanged.
OverlapCountsShared ==
    (OverlapDone /\ args.uni_pos1 # <<>> /\ args.uni_pos2 # <<>>) =>
        /\ ret = Return(Cardinality(RangeOf(args.uni_pos1)
                                    \cap RangeOf(args.uni_pos2))
                        >= (IF args.ignore_boundary THEN 2 ELSE 1))
        /\ check_for_overlap(args.uni_pos2, args.uni_pos1,
                             args.ignore_boundary) = ret

\* C23 witness: [1, 2, 3, 4] and [4, 5, 6, 7] do not overlap when the
\* boundary is ignored.
OverlapBoundaryWitness ==
    /\ OverlapDone
    /\ args.uni_pos1 = <<1, 2, 3, 4>>
    /\ args.uni_pos2 = <<4, 5, 6, 7>>
    /\ args.ignore_boundary
    /\ ret = Return(FALSE)

(***************************************************************************)
(* create_one_hot_vectors, one_hot_encodings                               *)
(*                                                                         *)
(* A vector of np.zeros is a sequence of numbers, the array returned a     *)
(* sequence of vectors (its rows).  max_len is None or <<n>>.              *)
(***************************************************************************)

\* 20 standard + X
AMINO_ACIDS ==
    <<"A", "C", "D", "E", "F", "G", "H", "I", "K", "L", "M", "N", "P", "Q",
      "R", "S", "T", "V", "W", "Y", "X">>

OTHERS == <<"PADS">>

None == <<>>

\* np.zeros( n )
zeros(n) == [k \in 1..n |-> 0]

\* The vector stored for the i-th (0-based) key aa of the loop.
one_hot_vector(i, aa) ==
    IF aa # "PADS" THEN [zeros(Len(AMINO_ACIDS)) EXCEPT ![i + 1] = 0]
    ELSE zeros(Len(AMINO_ACIDS))

\* The dict aa_to_one_hot that create_one_hot_vectors returns.
create_one_hot_vectors ==
    LET keys == AMINO_ACIDS \o OTHERS
    IN  [aa \in Elements(keys) |->
            one_hot_vector((CHOOSE i \in 1..Len(keys) : keys[i] = aa) - 1, aa)]

\* The key whose vector is appended for the residue res.
residue_key(res) ==
    IF res \notin Elements(AMINO_ACIDS) THEN "X" ELSE res

\* reshape( length, 21 ) raises ValueError when the rows are not length many.
one_hot_encodings(seq, max_len) ==
    LET aa_to_one_hot == create_one_hot_vectors
        rows == [k \in 1..Len(seq) |-> aa_to_one_hot[residue_key(seq[k])]]
        pads == IF max_len = None THEN <<>>
                ELSE [k \in 1..(max_len[1] - Len(seq)) |->
                         aa_to_one_hot["PADS"]]
        length == IF max_len = None THEN Len(seq) ELSE max_len[1]
    IN  IF Len(rows \o pads) # length THEN Raise("ValueError")
        ELSE Return(rows \o pads)

\* Bounds of the length of the sequence and of max_len.
MaxSeqLen == 3
MaxPadLen == 4

\* Three amino acid letters, X, and a letter that is none of the 21.
SeqChars == {"A", "C", "Y", "X", "B"}

InitOneHot ==
    /\ pc = "ready"
    /\ fn = "one_hot_encodings"
    /\ args \in {[seq |-> q, max_len |-> m] :
                    q \in SeqUpTo(SeqChars, MaxSeqLen),
                    m \in {None} \cup {<<n>> : n \in 0..MaxPadLen}}
    /\ ret = NoCall
    /\ ret2 = NoCall

CallOneHot ==
    /\ pc = "ready"
    /\ fn = "one_hot_encodings"
    /\ ret' = one_hot_encodings(args.seq, args.max_len)
    /\ pc' = "done"
    /\ UNCHANGED <<fn, args, ret2>>

SpecOneHot == InitOneHot /\ [][CallOneHot]_vars

OneHotDone == pc = "done" /\ fn = "one_hot_encodings"

\* C24: create_one_hot_vectors gives every one of the 21 amino acid letters
\* a vector of 21 entries with a single 1, at the index of the letter, and
\* PADS the vector of zeros; so the rows one_hot_encodings returns for two
\* different amino acid letters differ.
OneHotDistinctRows ==
    OneHotDone =>
        /\ \A i \in 1..Len(AMINO_ACIDS) :
              LET v == create_one_hot_vectors[AMINO_ACIDS[i]]
              IN  /\ Len(v) = Len(AMINO_ACIDS)
                  /\ {k \in 1..Len(v) : v[k] = 1} = {i}
                  /\ \A k \in 1..Len(v) : v[k] \in {0, 1}
        /\ create_one_hot_vectors["PADS"] = zeros(Len(AMINO_ACIDS))
        /\ ret.exc = "" =>
              \A j, k \in 1..Len(args.seq) :
                 (/\ args.seq[j] # args.seq[k]
                  /\ args.seq[j] \in Elements(AMINO_ACIDS)
                  /\ args.seq[k] \in Elements(AMINO_ACIDS))
                 => ret.value[j] # ret.value[k]

(***************************************************************************)
(* find_disorder_regions, get_frac_disordered                              *)
(*                                                                         *)
(* A database is given by the "Disorder regions" strings of its rows for   *)
(* the protein, in the order of the rows.  The fraction returned is kept   *)
(* as the two numbers that are divided.                                    *)
(***************************************************************************)

\* ",".join( rows )
RECURSIVE join_comma(_)
join_comma(rows) ==
    IF rows = <<>> THEN <<>>
    ELSE IF Len(rows) = 1 THEN rows[1]
    ELSE rows[1] \o <<",">> \o join_comma(Tail(rows))

\* np.arange( a, b )
arange(a, b) == [k \in 1..(b - a) |-> a + k - 1]

\* find_disorder_regions for one protein, with return_ids = False.
find_disorder_regions(disprot, ideal, mobidb, min_len) ==
    LET disorder_regions == join_comma(disprot \o ideal \o mobidb)
    IN  IF Len(disorder_regions) # 0
        THEN LET c == consolidate_regions(disorder_regions, min_len)
             IN  IF c.exc # "" THEN Raise(c.exc)
                 ELSE Return([k \in 1..Len(c.value) |->
                                 arange(c.value[k][1], c.value[k][2] + 1)])
        ELSE Return(<<>>)

\* len( disorder_uni_res ) after the loop: the overlap of every region with
\* uni_res is added to the list.
RECURSIVE count_overlaps(_, _)
count_overlaps(regions, uni_res) ==
    IF regions = <<>> THEN 0
    ELSE Cardinality(Elements(Head(regions)) \cap Elements(uni_res))
         + count_overlaps(Tail(regions), uni_res)

\* The division by total_uni = 0 raises ZeroDivisionError.
get_frac_disordered(disprot, ideal, mobidb, start, end) ==
    LET disordered_regions == find_disorder_regions(disprot, ideal, mobidb, 1)
    IN  IF disordered_regions.exc # "" THEN Raise(disordered_regions.exc)
        ELSE LET uni_res == arange(start, end + 1)
                 total_uni == end - start + 1
             IN  IF total_uni = 0 THEN Raise("ZeroDivisionError")
                 ELSE Return([num |-> count_overlaps(disordered_regions.value,
                                                     uni_res),
                              den |-> total_uni])

\* A database has no row for the protein or one row with one region.
DbRows == {<<>>} \cup {<<regions_string(<<t>>)>> : t \in RegionIntervals}

InitFrac ==
    /\ pc = "ready"
    /\ fn = "get_frac_disordered"
    /\ args \in {[disprot |-> d, ideal |-> i, mobidb |-> m,
                  start |-> t[1], end |-> t[2]] :
                    d \in DbRows, i \in DbRows, m \in DbRows,
                    t \in RegionIntervals}
    /\ ret = NoCall
    /\ ret2 = NoCall

CallFrac ==
    /\ pc = "ready"
    /\ fn = "get_frac_disordered"
    /\ ret' = get_frac_disordered(args.disprot, args.ideal, args.mobidb,
                                  args.start, args.end)
    /\ pc' = "done"
    /\ UNCHANGED <<fn, args, ret2>>

SpecFrac == InitFrac /\ [][CallFrac]_vars

FracDone == pc = "done" /\ fn = "get_frac_disordered"

\* The raw intervals the three databases list for the protein.
RawIntervals ==
    {t \in RegionIntervals :
        <<regions_string(<<t>>)>> \in {args.disprot, args.ideal, args.mobidb}}

\* C25: get_frac_disordered returns a fraction between 0 and 1, which is 1
\* exactly when every residue of start..end lies in a raw disorder interval
\* of one of the three databases.
FracCountsEveryResidue ==
    FracDone =>
        /\ ret.exc = ""
        /\ 0 <= ret.value.num /\ ret.value.num <= ret.value.den
        /\ (ret.value.num = ret.value.den)
              <=> \A r \in args.start..args.end :
                     \E t \in RawIntervals : r \in t[1]..t[2]

(***************************************************************************)
(* Basis Converter: gaps under a marker of the caller                      *)
(***************************************************************************)

\* C26: whatever marker the caller passes as add, a call of change_basis
\* whose non-missing target elements all occur in the source stream returns
\* (a missing element is never looked up), and every position of target_pos
\* that holds a missing token ("null" or NaN) holds "null" in the output.
BasisPropagatesGapsAnyMarker ==
    BasisDone =>
        /\ (\A i \in 1..Len(args.target_pos) :
               ~IsMissing(args.target_pos[i]) =>
                   Occurs(Token(args.target_pos[i]), SourceStream))
           => ret.exc = ""
        /\ ret.exc = "" =>
              \A i \in 1..Len(args.target_pos) :
                  IsMissing(args.target_pos[i]) => ret.value[i] = null

(***************************************************************************)
(* Gap filling: add_residue_positions without "null", and its length test  *)
(***************************************************************************)

\* C27: with add_null = False add_residue_positions returns a list equal
\* to query_pos, element by element, whatever target_pos holds.
ResidueKeepsQuery ==
    (ResidueDone /\ ~args.add_null) => ret = Return(args.query_pos)

\* C27 witness: the target has one position of the query and lacks the
\* other, and holds a position the query does not have.
ResidueKeepsWitness ==
    /\ ResidueDone /\ ~args.add_null
    /\ Len(args.query_pos) = 2
    /\ py_in(args.query_pos[1], args.target_pos)
    /\ ~py_in(args.query_pos[2], args.target_pos)
    /\ \E k \in 1..Len(args.target_pos) :
          ~py_in(args.target_pos[k], args.query_pos)
    /\ ret.exc = ""

\* C28: the list add_residue_positions builds is as long as query_pos for
\* every query_pos, target_pos and add_null, so the exception of the
\* length test is never raised.
ResidueLengthTestPasses ==
    ResidueDone =>
        /\ Len(residue_loop(args.query_pos, args.target_pos, args.add_null,
                            1, <<>>)) = Len(args.query_pos)
        /\ ret.exc = ""

\* C28 witness: a call with "null" added for one query position and another
\* query position kept has passed the length test.
ResidueLengthWitness ==
    /\ ResidueDone /\ args.add_null
    /\ Len(args.query_pos) = 3
    /\ \E i, j \in 1..3 :
          /\ args.query_pos[i] # PyStr(null)
          /\ ret.value[i] = PyStr(null)
          /\ ret.value[j] # PyStr(null)
    /\ Len(ret.value) = 3

=============================================================================
